---- MODULE Spec2Model ----
(***************************************************************************)
(* Asynchronous geospatial job orchestration: admission, external          *)
(* executor callbacks, polling and batch chunking of the controllers       *)
(* (height, deforestation, mining, fire, prediction, investment, imagery,  *)
(* segmentation).                                                          *)
(*                                                                         *)
(* Coordinates are integers in hundredths of a degree.  The Job Record     *)
(* Store is the document collection as the controllers use it (save of a   *)
(* new document persists it, findOne by processingId reads it), with the   *)
(* unique index of SegmentationResult.processingId; where strict holds,    *)
(* save at admission also validates the required paths and the owner type  *)
(* of the schema.  Alerts are counted per source job; the Alert schema's   *)
(* required zoneId decides whether a write is stored.  Parameter files are *)
(* named after the processingId.  Confidences are in hundredths.           *)
(* The orchestrating process is a single Node process: an 'error' event    *)
(* with no listener and a rejected promise nobody handles terminate it.    *)
(*                                                                         *)
(* The queries of the read side (trends, hotspots, height statistics, the  *)
(* lookup around a point) are run over stores that already hold documents  *)
(* of given status, age in days and summary; a month is 30 days.  A center *)
(* point of a height submission has its radius in metres, and a batch      *)
(* submission may meet a store that fails the save of one of its chunks.   *)
(***************************************************************************)
EXTENDS Integers, Sequences, FiniteSets, TLC

\* ------------------------------------------------------------------ bounds
MaxRequests == 2      \* submissions handled by the orchestrator in one run
MaxPolled == 1        \* submissions in the runs with polling callers
MaxAdmitted == 1      \* submissions in the runs over the whole input grid
MaxUnits == 120       \* units of the batch submitted in the runs with callbacks
MaxDetections == 2    \* detections of a result in the runs over the alert rule
MaxBuildings == 2     \* buildings in the output of a height process
MaxMonths == 6        \* months over which the stored documents of a trend query spread
MaxDocs == 51         \* alternating documents in the stores of the read-side queries
MaxAlerts == 2        \* Alerts stored when a point is looked up

\* ------------------------------------------------------- program constants
HeightCeiling == 100
HotspotLimit == 50
SegmentCeiling == 1000
MiningCeiling == 5000
DeforestationCeiling == 10000
ImageryCeiling == 10000
FireCeiling == 50000
chunkSize == 50
MaxBatch == 1000
KmPerDegree == 111
DefaultThreshold == 70

VARIABLES store, file, proc, hist, resp, last, reqCount, crashed, limit, clash, strict,
          alerts, params

vars == <<store, file, proc, hist, resp, last, reqCount, crashed, limit, clash, strict,
          alerts, params>>

\* ------------------------------------------------------------- identifiers
\* An identifier is a pair: base n stands for the n-th value of
\* `${Date.now()}_${random}`, chunk for the `_chunk_${k}` suffix.  The same
\* pairs serve as the keys (_id) of the documents: the document of request n
\* has key JobId(n), the k-th chunk document of batch n has key ChunkId(n, k).
NoChunk == 0 - 1

\* processingId of a directly admitted job: `${kind}_${Date.now()}_${random}`
JobId(n) == [base |-> n, chunk |-> NoChunk]

\* processingId of a batch chunk: `${batchId}_chunk_${Math.floor(i / chunkSize)}`
ChunkId(n, k) == [base |-> n, chunk |-> k]

\* ------------------------------------------------------------------ inputs
NoBox == [minLat |-> 0, maxLat |-> 0, minLng |-> 0, maxLng |-> 0, given |-> FALSE]

Box(a, b, c, d) == [minLat |-> a, maxLat |-> b, minLng |-> c, maxLng |-> d, given |-> TRUE]

LatPairs == {<<0, 9>>, <<0, 90>>, <<0, 250>>, <<6000, 6009>>, <<9, 0>>, <<0, 0>>}

LngPairs == {<<0, 9>>, <<0, 10>>, <<0, 45>>, <<0, 46>>, <<0, 90>>, <<0, 91>>,
             <<0, 162>>, <<0, 163>>, <<10, 0>>, <<5, 5>>}

GridBoxes == {Box(p[1], p[2], q[1], q[2]) : p \in LatPairs, q \in LngPairs} \cup {NoBox}

MainBoxes == {Box(0, 9, 0, 9)}

\* lengths of the buildings array of a batch request
BatchSizes == {0, 1, 49, 50, 51, 100, 120, 999, 1000, 1001}

\* what the external process does: whether it could be started, its exit code,
\* what it wrote to standard output and to standard error
Outcome(started, code, out, err) == [started |-> started, code |-> code, out |-> out, err |-> err]

Outcomes == {Outcome(FALSE, 1, "empty", "empty"),
             Outcome(TRUE, 0, "json", "empty"), Outcome(TRUE, 0, "garbage", "empty"),
             Outcome(TRUE, 0, "empty", "empty"), Outcome(TRUE, 0, "empty", "text"),
             Outcome(TRUE, 1, "empty", "empty"), Outcome(TRUE, 1, "empty", "text")}

\* --------------------------------------------------------- bounds validator
\* (maxLat - minLat) * (maxLng - minLng) * 111 * 111, in units of 1/10000 km2
AreaFlat(b) == (b.maxLat - b.minLat) * (b.maxLng - b.minLng) * KmPerDegree * KmPerDegree

\* variant of ExceedsFlat: the product of the sides in degrees, not converted
\* to kilometres, is compared with the ceiling
ExceedsFlatInDegrees(b, ceiling) ==
  (b.maxLat - b.minLat) * (b.maxLng - b.minLng) > ceiling * 100 * 100

\* areaSize > ceiling, the ceiling in km2
ExceedsFlat(b, ceiling) == AreaFlat(b) > ceiling * 100 * 100

\* minLat >= maxLat || minLng >= maxLng
InvalidBounds(b) == b.minLat >= b.maxLat \/ b.minLng >= b.maxLng

Abs(x) == IF x < 0 THEN 0 - x ELSE x

\* Math.cos at whole degrees 0..90, times 1000
CosTable == <<1000, 1000, 999, 999, 998, 996, 995, 993, 990, 988, 985, 982, 978,
              974, 970, 966, 961, 956, 951, 946, 940, 934, 927, 921, 914, 906,
              899, 891, 883, 875, 866, 857, 848, 839, 829, 819, 809, 799, 788,
              777, 766, 755, 743, 731, 719, 707, 695, 682, 669, 656, 643, 629,
              616, 602, 588, 574, 559, 545, 530, 515, 500, 485, 469, 454, 438,
              423, 407, 391, 375, 358, 342, 326, 309, 292, 276, 259, 242, 225,
              208, 191, 174, 156, 139, 122, 105, 87, 70, 52, 35, 17, 0>>

\* Math.cos((avgLat * Math.PI) / 180) times 1000; latSum is minLat + maxLat
CosE3(latSum) == CosTable[(Abs(latSum) \div 200) + 1]

\* calculateAreaSize: latDistance * lngDistance with 111.32 km per degree and the
\* cosine of the mean latitude, in units of 1/10 km2 (111.32 * 111.32 = 12392.14)
calculateAreaSize(b) ==
  ((((b.maxLat - b.minLat) * (b.maxLng - b.minLng) * 12392) \div 1000)
     * CosE3(b.minLat + b.maxLat)) \div 1000

\* areaKm2 > 1000
ExceedsSegment(b) == calculateAreaSize(b) > SegmentCeiling * 10

AreaKinds == {"deforestation", "mining", "fire"}

Ceiling(kind) ==
  CASE kind = "deforestation" -> DeforestationCeiling
    [] kind = "mining" -> MiningCeiling
    [] kind = "fire" -> FireCeiling

\* estimateBuildingHeights: the checks before the processingId is generated
HeightAdmission(c) ==
  IF ~c.given THEN "MissingCoordinates"
  ELSE IF ExceedsFlat(c, HeightCeiling) THEN "AreaTooLarge"
  ELSE "Accepted"

\* analyzeDeforestation, detectMiningActivities, detectForestFires
AreaAdmission(kind, c) ==
  IF ~c.given THEN "MissingCoordinates"
  ELSE IF InvalidBounds(c) THEN "InvalidBounds"
  ELSE IF ExceedsFlat(c, Ceiling(kind)) THEN "AreaTooLarge"
  ELSE "Accepted"

\* fetchSatelliteImagery
ImageryAdmission(c) ==
  IF ~c.given THEN "MissingCoordinates"
  ELSE IF ExceedsFlat(c, ImageryCeiling) THEN "AreaTooLarge"
  ELSE "Accepted"

\* processGeographicArea
SegmentAdmission(c) ==
  IF ~c.given THEN "MissingCoordinates"
  ELSE IF InvalidBounds(c) THEN "InvalidBounds"
  ELSE IF ExceedsSegment(c) THEN "AreaTooLarge"
  ELSE "Accepted"

\* --------------------------------------------------------------- the state
Bases == 1..MaxRequests

\* the keys of the documents of runs whose batches have at most `units` units
Ids(units) ==
  {JobId(n) : n \in Bases} \cup
  {ChunkId(n, k) : n \in Bases, k \in 0..((units + chunkSize - 1) \div chunkSize - 1)}

\* the keys of the documents of the run
AllIds == DOMAIN store

\* a SegmentationResult / PredictionResult document, as far as the orchestration
\* layer reads and writes it: status, the result fields (summary, detections,
\* prediction, analysis), metadata.error, and the batch fields of a chunk;
\* age is the time since createdAt in days, totalForestLoss and
\* forestLossPercentage and totalBuildings are the fields of summary the read
\* side uses
Rec(kind, status, hasResult, error, chunkIndex, units) ==
  [kind |-> kind, status |-> status, hasResult |-> hasResult, error |-> error,
   chunkIndex |-> chunkIndex, units |-> units,
   pid |-> [base |-> 0, chunk |-> NoChunk], completedAt |-> FALSE,
   owner |-> "none", detections |-> <<>>,
   age |-> 0, totalForestLoss |-> 0, forestLossPercentage |-> 0, totalBuildings |-> 0]

NoRecord == Rec("none", "none", FALSE, "none", NoChunk, <<>>)

\* the document an admission builds: processingId pid, status "processing",
\* metadata.processingStarted set, metadata.processingCompleted not
NewRecord(kind, pid) ==
  [Rec(kind, "processing", FALSE, "none", NoChunk, <<>>) EXCEPT !.pid = pid]

\* the imagery result file `${processingId}_result.json`
FileRec(status, hasData, error) == [status |-> status, hasData |-> hasData, error |-> error]

NoFile == FileRec("none", FALSE, "none")

\* how the process of a request ended, as the close handlers tell the cases apart
ExitClass(o) ==
  IF ~o.started THEN "startFailed"
  ELSE IF o.code # 0 THEN "nonzero"
  ELSE IF o.out = "empty" THEN "noOutput"
  ELSE IF o.out = "json" THEN "ok"
  ELSE "unparsable"

\* the executor's process of a request: running, then closed (its handler ran),
\* or saved (its handler awaits its save)
ProcRec(kind, state, exit) ==
  [kind |-> kind, state |-> state, exit |-> exit, pid |-> [base |-> 0, chunk |-> NoChunk],
   emitted |-> <<>>, summary |-> [metric |-> -1, high |-> FALSE]]

NoProc == ProcRec("none", "none", "none")

\* one HTTP exchange: the request (operation, kind, input) and the answer
Exchange(op, kind, box, size, id, code, reason, status, hasResult, hasError) ==
  [op |-> op, kind |-> kind, box |-> box, size |-> size, id |-> id, code |-> code,
   reason |-> reason, status |-> status, hasResult |-> hasResult, hasError |-> hasError,
   detections |-> <<>>, list |-> <<>>, analysis |-> "none", timeframe |-> "none",
   radius |-> 0]

NoId == [base |-> 0, chunk |-> NoChunk]

NoExchange == Exchange("none", "none", NoBox, 0, NoId, 0, "none", "none", FALSE, FALSE)

\* the answer to a submission
Answer(kind, box, size, id, code, reason, status) ==
  Exchange("submit", kind, box, size, id, code, reason, status, FALSE, FALSE)

\* what the evaluation of one job's result decides on: whether the caller gave
\* a zone name, the threshold, the confidences of the detections in order, and
\* the positions of the detections whose Alert write the store fails
AlertInput(zoneName, threshold, detections, fails) ==
  [zoneName |-> zoneName, threshold |-> threshold, detections |-> detections,
   fails |-> fails]

NoInput == AlertInput(FALSE, 0, <<>>, {})

\* the Alerts of one job: what was evaluated, how many Alert writes were
\* attempted and how many Alerts were stored; of the stored Alerts the
\* severity, the status (the schema's default is active), the time since
\* createdAt in days and the larger of the distances in latitude and in
\* longitude, in metres, between their coordinates and the looked-up point
AlertsOf(given, tried, made) ==
  [given |-> given, tried |-> tried, made |-> made, severity |-> "none",
   status |-> "active", age |-> 0, offset |-> 0]

NoAlerts == AlertsOf(NoInput, 0, 0)

\* the orchestrator after start-up, in a run in which it takes l submissions
\* and in which the identifier generator may (c) or may not repeat a value
\* and whose batches have at most u units
StartedAs(l, c, u, v) ==
  /\ store = [id \in Ids(u) |-> NoRecord]
  /\ file = [n \in Bases |-> NoFile]
  /\ proc = [n \in Bases |-> NoProc]
  /\ hist = [id \in Ids(u) |-> <<>>]
  /\ resp = [n \in Bases |-> <<>>]
  /\ last = NoExchange
  /\ reqCount = 0
  /\ crashed = FALSE
  /\ limit = l
  /\ clash = c
  /\ strict = v
  /\ alerts = [n \in Bases |-> NoAlerts]
  /\ params = [n \in Bases |-> FALSE]

\* a run whose store takes every document it is given
StartedWith(l, c, u) == StartedAs(l, c, u, FALSE)

\* a run with distinct identifiers
Started(l) == StartedWith(l, FALSE, MaxUnits)

Init == Started(MaxRequests)

\* variant of Save: the update is applied without the document's filter, so
\* every stored document takes the status and error of the saved one
SaveUnfiltered(id, rec) ==
  /\ store' = [k \in DOMAIN store |->
                 IF k = id THEN rec
                 ELSE IF store[k].kind = "none" THEN store[k]
                 ELSE [store[k] EXCEPT !.status = rec.status, !.error = rec.error]]
  /\ hist' = [k \in DOMAIN hist |->
                IF k = id \/ store[k].kind # "none"
                THEN Append(hist[k], rec.status) ELSE hist[k]]

\* document.save(): the document is persisted as one update
Save(id, rec) ==
  /\ store' = [store EXCEPT ![id] = rec]
  /\ hist' = [hist EXCEPT ![id] = Append(@, rec.status)]

\* spawn(...): the executor's process for request n is in flight
Launch(n, kind, pid) ==
  proc' = [proc EXCEPT ![n] = [ProcRec(kind, "running", "none") EXCEPT !.pid = pid]]

\* fs.writeFile(paramFile, ...): the parameter file named after identifier t
WriteParams(t) == params' = [params EXCEPT ![t] = TRUE]

\* fs.unlink(paramFile) inside its own try/catch
Unlink(t) == params' = [params EXCEPT ![t] = FALSE]

\* a submission turned away before a processingId exists: 400 and nothing else
Reject(n, kind, c, size, reason) ==
  /\ last' = Answer(kind, c, size, NoId, 400, reason, "none")
  /\ UNCHANGED <<store, file, proc, hist, resp, crashed, params>>

CanSubmit == ~crashed /\ reqCount < limit

\* what `${Date.now()}_${Math.random().toString(36).substr(2, 9)}` yields for
\* request n of a kind: a value no earlier request got or, in a run in which
\* the generator repeats, the value an earlier request of the kind got
Generated(kind, n) ==
  {n} \cup (IF clash
           THEN {proc[m].pid.base : m \in {u \in Bases : u < n /\ proc[u].kind = kind}}
           ELSE {})

\* the collection a kind's documents live in
Collection(kind) ==
  IF kind \in {"prediction", "investment"} THEN "PredictionResult" ELSE "SegmentationResult"

\* the keys of the documents of a collection whose processingId is id
\* (a segmentation document carries no processingId)
Matching(coll, id) ==
  {k \in AllIds : /\ store[k].kind \notin {"none", "segmentation"}
                  /\ Collection(store[k].kind) = coll
                  /\ store[k].pid = id}

\* processingId is declared unique in the SegmentationResult schema only: a
\* save of a second document with the same processingId is refused there
\* req.body.userId: the id of a user, or none
Users == {"id", "absent"}

\* where the store takes every document the owner bears on nothing, and the
\* requests carry a user id
Callers == IF strict THEN Users ELSE {"id"}

\* userId ? new mongoose.Types.ObjectId(userId) : ANONYMOUS_USER_ID in the
\* height handlers; userId || "anonymous" in the others
Owner(kind, user) ==
  IF user # "absent" THEN user
  ELSE IF kind \in {"height", "batch"} THEN "anonymousId" ELSE "anonymous"

\* the required paths of the schema that the document built at admission has
Supplied(kind) ==
  IF kind \in {"height", "batch"}
  THEN {"userId", "processingId", "zoneName", "modelUsed", "confidence"}
  ELSE IF kind \in AreaKinds
  THEN {"userId", "processingId", "zoneName", "modelUsed"}
  ELSE IF kind = "prediction"
  THEN {"userId"}
  ELSE {}

\* the paths the schema of a collection declares required
Required(coll) ==
  IF coll = "SegmentationResult"
  THEN {"userId", "processingId", "zoneName", "modelUsed", "confidence"}
  ELSE {"userId", "location.latitude", "location.longitude", "prediction.estimatedPrice",
        "prediction.confidence", "prediction.growthPotential"}

\* userId is of type ObjectId: a value that is none fails the cast
CastsToObjectId(owner) == owner \in {"id", "anonymousId"}

\* document.validate(), run by save()
Validates(kind, owner) ==
  /\ Required(Collection(kind)) \subseteq Supplied(kind)
  /\ CastsToObjectId(owner)

\* save() throws a ValidationError and nothing is stored
Invalid(kind, user) == strict /\ ~Validates(kind, Owner(kind, user))

OwnedBy(rec, kind, user) == [rec EXCEPT !.owner = Owner(kind, user)]

Refused(coll, id) == coll = "SegmentationResult" /\ Matching(coll, id) # {}

\* save() threw inside the admission's try block: the catch answers 500 and
\* nothing is spawned
SaveRefused(n, kind, c, size) ==
  /\ last' = Answer(kind, c, size, NoId, 500, "StoreError", "none")
  /\ resp' = [resp EXCEPT ![n] = Append(@, 500)]
  /\ UNCHANGED <<file, proc, crashed, params>>

\* -------------------------------------------------------- building height
\* estimateBuildingHeights: checks, record saved as processing, spawn, 202
\* estimateBuildingHeights for coordinates c whose checks gave the verdict
AdmitHeight(c, verdict) ==
  /\ CanSubmit
  /\ reqCount' = reqCount + 1 /\ UNCHANGED <<limit, clash, strict, alerts>>
  /\ LET n == reqCount + 1
     IN IF verdict # "Accepted"
        THEN Reject(n, "height", c, 0, verdict)
        ELSE \E t \in Generated("height", n), user \in Callers :
             IF Invalid("height", user) \/ Refused("SegmentationResult", JobId(t))
             THEN SaveRefused(n, "height", c, 0) /\ UNCHANGED <<store, hist>>
             ELSE /\ Save(JobId(n), OwnedBy(NewRecord("height", JobId(t)), "height", user))
                  /\ Launch(n, "height", JobId(t))
                  /\ resp' = [resp EXCEPT ![n] = Append(@, 202)]
                  /\ last' = Answer("height", c, 0, JobId(t), 202, "Accepted", "processing")
                  /\ WriteParams(t)
                  /\ UNCHANGED <<file, crashed>>

\* coordinates given as bounds
SubmitHeight(c) == AdmitHeight(c, HeightAdmission(c))

\* coordinates given as a point: lat and lng in hundredths of a degree, radius
\* in metres, 0 for a request without radius
Point(lat, lng, radius) == [lat |-> lat, lng |-> lng, radius |-> radius, given |-> TRUE]

\* the bounds derived from a point, in units of 1/111000 degree: radius /
\* 111000 degrees are radius units, a hundredth of a degree is 1110 units
pointBounds(p) ==
  LET radius == IF p.radius = 0 THEN 1000 ELSE p.radius
  IN Box(p.lat * 1110 - radius, p.lat * 1110 + radius,
         p.lng * 1110 - radius, p.lng * 1110 + radius)

\* areaSize > ceiling for bounds in units of 1/111000 degree:
\* (maxLat - minLat) * (maxLng - minLng) * 111 * 111 / (111000 * 111000) km2
ExceedsFlatOfPoint(b, ceiling) ==
  (b.maxLat - b.minLat) * (b.maxLng - b.minLng) > ceiling * 1000 * 1000

\* estimateBuildingHeights: the checks on a point before the processingId is
\* generated; `coordinates.lat && coordinates.lng` is false for 0
PointAdmission(p) ==
  IF p.lat = 0 \/ p.lng = 0 THEN "InvalidFormat"
  ELSE IF ExceedsFlatOfPoint(pointBounds(p), HeightCeiling) THEN "AreaTooLarge"
  ELSE "Accepted"

SubmitHeightAt(p) == AdmitHeight(p, PointAdmission(p))

\* pythonError || "<generic message>": the text of standard error, or the
\* handler's own message when standard error is empty
ErrorText(o) == IF o.err = "text" THEN "stderr" ELSE "generic"

\* what a close handler that re-reads the record, parses standard output and
\* saves does to the record (estimateBuildingHeights, predictPropertyValue)
ParsedRecord(rec, o) ==
  IF o.code = 0 /\ o.out # "empty"
  THEN IF o.out = "json"
       THEN [rec EXCEPT !.status = "completed", !.hasResult = TRUE, !.completedAt = TRUE]
       ELSE [rec EXCEPT !.status = "failed", !.error = "parse"]
  ELSE [rec EXCEPT !.status = "failed", !.error = ErrorText(o)]

\* the process could not be started: the 'error' event has no listener, the
\* exception is uncaught and the orchestrating process ends
StartFailure(n) ==
  /\ proc' = [proc EXCEPT ![n].state = "failedToStart", ![n].exit = "startFailed"]
  /\ crashed' = TRUE
  /\ UNCHANGED <<store, file, hist, resp, last, reqCount, limit, clash, strict, alerts, params>>

\* estimateBuildingHeights, pythonProcess.on("close")
\* the confidences a building of the process's output may carry, in hundredths
EmittedConfidences == {57, 87, 100}

\* building.confidence * 100 in double arithmetic: the whole number of the
\* product and the units in the last place the product is off it
\* (0.87 * 100 is 87, 0.57 * 100 is 56.99999999999999)
Times100(c) == [whole |-> c, ulps |-> IF c = 57 THEN -1 ELSE 0]

\* metres is the distance of the detection's center from the looked-up point
\* of the runs, which is the place of the buildings
Detection(building) ==
  [class |-> "urban_expansion", confidence |-> Times100(building), metres |-> 0]

\* variant of Detections: the newest building first
DetectionsNewestFirst(buildings) ==
  [i \in 1..Len(buildings) |-> Detection(buildings[Len(buildings) + 1 - i])]

\* (results.buildings || []).map(building => ({ ... }))
Detections(buildings) == [i \in 1..Len(buildings) |-> Detection(buildings[i])]

HeightRecord(rec, o, buildings) ==
  LET parsed == ParsedRecord(rec, o)
  IN IF parsed.status = "completed"
     THEN [parsed EXCEPT !.detections = Detections(buildings)]
     ELSE parsed

\* the close handler for a process whose output, where it is JSON, lists
\* these buildings
CloseHeightEmitting(n, o, buildings) ==
  /\ ~crashed
  /\ proc[n].kind = "height" /\ proc[n].state = "running"
  /\ IF ~o.started
     THEN StartFailure(n)
     ELSE /\ proc' = [proc EXCEPT ![n].state = "closed", ![n].exit = ExitClass(o),
                                  ![n].emitted = IF ExitClass(o) = "ok" THEN buildings
                                                 ELSE <<>>]
          /\ LET found == Matching("SegmentationResult", proc[n].pid)
             IN IF found = {}
                THEN UNCHANGED <<store, hist>>
                ELSE LET k == CHOOSE k \in found : \A j \in found : k.base <= j.base
                     IN Save(k, HeightRecord(store[k], o, buildings))
          /\ Unlink(proc[n].pid.base)
          /\ UNCHANGED <<file, resp, last, reqCount, crashed, limit, clash, strict, alerts>>

\* variant of CloseHeight: the callbacks are served in the order of admission,
\* each after the jobs admitted before it have left flight
CloseHeightInTurn(n, o) ==
  /\ \A j \in Bases : j < n => proc[j].state # "running"
  /\ CloseHeightEmitting(n, o, <<>>)

\* the close handler for an output that lists no building
CloseHeight(n, o) == CloseHeightEmitting(n, o, <<>>)

\* ------------------------------------------------------ property prediction
\* predictPropertyValue: coordinates and propertyDetails required
SubmitPrediction(given) ==
  /\ CanSubmit
  /\ reqCount' = reqCount + 1 /\ UNCHANGED <<limit, clash, strict, alerts>>
  /\ LET n == reqCount + 1
     IN IF ~given
        THEN Reject(n, "prediction", NoBox, 0, "MissingCoordinates")
        ELSE \E t \in Generated("prediction", n), user \in Callers :
             IF Invalid("prediction", user)
             THEN SaveRefused(n, "prediction", NoBox, 0) /\ UNCHANGED <<store, hist>>
             ELSE /\ Save(JobId(n),
                          OwnedBy(NewRecord("prediction", JobId(t)), "prediction", user))
                  /\ Launch(n, "prediction", JobId(t))
                  /\ resp' = [resp EXCEPT ![n] = Append(@, 202)]
                  /\ last' = Answer("prediction", NoBox, 0, JobId(t), 202, "Accepted",
                                    "processing")
                  /\ WriteParams(t)
                  /\ UNCHANGED <<file, crashed>>

\* predictPropertyValue, pythonProcess.on("close"): updates the document it created
ClosePrediction(n, o) ==
  /\ ~crashed
  /\ proc[n].kind = "prediction" /\ proc[n].state = "running"
  /\ IF ~o.started
     THEN StartFailure(n)
     ELSE /\ proc' = [proc EXCEPT ![n].state = "closed", ![n].exit = ExitClass(o)]
          /\ Save(JobId(n), ParsedRecord(store[JobId(n)], o))
          /\ Unlink(proc[n].pid.base)
          /\ UNCHANGED <<file, resp, last, reqCount, crashed, limit, clash, strict, alerts>>

\* ------------------------------------------- deforestation, mining, fire
\* analyzeDeforestation / detectMiningActivities / detectForestFires
SubmitArea(kind, c) ==
  /\ CanSubmit
  /\ reqCount' = reqCount + 1 /\ UNCHANGED <<limit, clash, strict, alerts>>
  /\ LET n == reqCount + 1
         verdict == AreaAdmission(kind, c)
     IN IF verdict # "Accepted"
        THEN Reject(n, kind, c, 0, verdict)
        ELSE \E t \in Generated(kind, n), user \in Callers :
             IF Invalid(kind, user) \/ Refused("SegmentationResult", JobId(t))
             THEN SaveRefused(n, kind, c, 0) /\ UNCHANGED <<store, hist>>
             ELSE /\ Save(JobId(n), OwnedBy(NewRecord(kind, JobId(t)), kind, user))
                  /\ Launch(n, kind, JobId(t))
                  /\ resp' = [resp EXCEPT ![n] = Append(@, 202)]
                  /\ last' = Answer(kind, c, 0, JobId(t), 202, "Accepted", "processing")
                  /\ UNCHANGED <<file, crashed, params>>

\* res.status(...).json(...) on a request whose 202 was already sent throws; it is
\* thrown again from the catch block, the handler's promise is rejected and nobody
\* handles it: the orchestrating process ends
RespondAfterAccepted == crashed' = TRUE

\* the close handler of the three analyses, up to and including its save
CloseArea(n, o) ==
  /\ ~crashed
  /\ proc[n].kind \in AreaKinds /\ proc[n].state = "running"
  /\ IF ~o.started
     THEN StartFailure(n)
     ELSE IF o.code = 0 /\ o.out = "garbage"
     THEN \* JSON.parse throws: the catch block only answers
          /\ proc' = [proc EXCEPT ![n].state = "closed", ![n].exit = ExitClass(o)]
          /\ RespondAfterAccepted
          /\ UNCHANGED <<store, file, hist, resp, last, reqCount, limit, clash, strict, alerts, params>>
     ELSE /\ proc' = [proc EXCEPT ![n].state = "saved", ![n].exit = ExitClass(o)]
          /\ IF o.code = 0 /\ o.out = "json"
             THEN Save(JobId(n), [store[JobId(n)] EXCEPT !.status = "completed",
                                                         !.hasResult = TRUE,
                                                         !.completedAt = TRUE])
             ELSE Save(JobId(n), [store[JobId(n)] EXCEPT !.status = "failed",
                                                         !.error = ErrorText(o)])
          /\ UNCHANGED <<file, resp, last, reqCount, crashed, limit, clash, strict, alerts, params>>

\* createDeforestationAlert / createMiningAlert / createFireAlert: one Alert
\* write inside try/catch; a write the store fails is logged and dropped
\* results.summary as far as the alert step reads it: the metric of the kind
\* (forestLossPercentage, totalMiningSites, activeFires) and whether the level
\* of the kind (severityLevel, riskLevel) is "high"
Summary(metric, high) == [metric |-> metric, high |-> high]

NoSummary == Summary(-1, FALSE)

Metrics == {0, 1, 3, 5, 6}

Summaries == {Summary(m, h) : m \in Metrics, h \in BOOLEAN}

\* the condition under which the close handler calls the alert function
Trigger(kind, s) ==
  IF kind = "deforestation" THEN s.metric > 5
  ELSE IF kind = "mining" THEN s.metric > 0
  ELSE s.metric > 0 \/ s.high

\* the severity the alert function of the kind gives its alert
Severity(kind, s) ==
  IF kind = "deforestation" THEN (IF s.high THEN "critical" ELSE "high")
  ELSE IF kind = "mining"
  THEN (IF s.metric > 5 THEN "high" ELSE IF s.metric > 2 THEN "medium" ELSE "low")
  ELSE (IF s.metric > 0 THEN "critical" ELSE IF s.high THEN "high" ELSE "medium")

createAlert(stored) == AlertsOf(NoInput, 1, IF stored THEN 1 ELSE 0)

\* variant of RespondArea: instead of answering, the handler starts the
\* analysis of the job again
RespondAreaRelaunch(n, trigger, stored) ==
  /\ ~crashed
  /\ proc[n].kind \in AreaKinds /\ proc[n].state = "saved"
  /\ proc' = [proc EXCEPT ![n].state = "running"]
  /\ UNCHANGED <<store, file, hist, resp, last, reqCount, crashed, limit, clash, strict, alerts, params>>

\* variant of RespondArea: the alert step runs in the failure branch as well
RespondAreaAlerting(n, trigger, stored) ==
  /\ ~crashed
  /\ proc[n].kind \in AreaKinds /\ proc[n].state = "saved"
  /\ proc' = [proc EXCEPT ![n].state = "closed"]
  /\ alerts' = [alerts EXCEPT ![n] = IF trigger THEN createAlert(stored) ELSE @]
  /\ RespondAfterAccepted
  /\ UNCHANGED <<store, file, hist, resp, last, reqCount, limit, clash, strict, params>>

\* the rest of the close handler after its save: in the branch that saved the
\* record as completed, the alert when the summary is above the trigger
\* (forestLossPercentage > 5, totalMiningSites > 0, activeFires > 0 or
\* riskLevel high); then res.status(200|500).json(...)
RespondAreaSummarised(n, s, stored) ==
  /\ ~crashed
  /\ proc[n].kind \in AreaKinds /\ proc[n].state = "saved"
  /\ proc' = [proc EXCEPT ![n].state = "closed",
                          ![n].summary = IF proc[n].exit = "ok" THEN s ELSE @]
  /\ alerts' = [alerts EXCEPT ![n] =
                  IF proc[n].exit = "ok" /\ Trigger(proc[n].kind, s)
                  THEN [createAlert(stored) EXCEPT !.severity = Severity(proc[n].kind, s)]
                  ELSE @]
  /\ RespondAfterAccepted
  /\ UNCHANGED <<store, file, hist, resp, last, reqCount, limit, clash, strict, params>>

\* the same for a summary that is above every trigger, or at zero
RespondArea(n, trigger, stored) ==
  RespondAreaSummarised(n, IF trigger THEN Summary(6, TRUE) ELSE Summary(0, FALSE), stored)

\* ------------------------------------------------------ investment analysis
\* analyzeInvestment: properties array required; spawn and 202, no record
SubmitInvestment(given) ==
  /\ CanSubmit
  /\ reqCount' = reqCount + 1 /\ UNCHANGED <<limit, clash, strict, alerts>>
  /\ LET n == reqCount + 1
     IN IF ~given
        THEN Reject(n, "investment", NoBox, 0, "MissingProperties")
        ELSE \E t \in Generated("investment", n) :
             /\ Launch(n, "investment", JobId(t))
             /\ resp' = [resp EXCEPT ![n] = Append(@, 202)]
             /\ last' = Answer("investment", NoBox, 0, JobId(t), 202, "Accepted", "processing")
             /\ UNCHANGED <<store, file, hist, crashed, params>>

\* analyzeInvestment, pythonProcess.on("close"), up to and including its save
CloseInvestment(n, o) ==
  /\ ~crashed
  /\ proc[n].kind = "investment" /\ proc[n].state = "running"
  /\ IF ~o.started
     THEN StartFailure(n)
     ELSE IF o.code = 0 /\ o.out = "json"
     THEN /\ proc' = [proc EXCEPT ![n].state = "saved", ![n].exit = ExitClass(o)]
          /\ Save(JobId(n), [NewRecord("investment", proc[n].pid)
                                EXCEPT !.status = "completed", !.hasResult = TRUE,
                                       !.completedAt = TRUE])
          /\ UNCHANGED <<file, resp, last, reqCount, crashed, limit, clash, strict, alerts, params>>
     ELSE \* JSON.parse throws, or the failure branch answers: no record is written
          /\ proc' = [proc EXCEPT ![n].state = "closed", ![n].exit = ExitClass(o)]
          /\ RespondAfterAccepted
          /\ UNCHANGED <<store, file, hist, resp, last, reqCount, limit, clash, strict, alerts, params>>

\* analyzeInvestment close handler after its save: res.status(200).json(...)
RespondInvestment(n) ==
  /\ ~crashed
  /\ proc[n].kind = "investment" /\ proc[n].state = "saved"
  /\ proc' = [proc EXCEPT ![n].state = "closed"]
  /\ RespondAfterAccepted
  /\ UNCHANGED <<store, file, hist, resp, last, reqCount, limit, clash, strict, alerts, params>>

\* --------------------------------------------------------------- imagery
\* fetchSatelliteImagery: 202 first, then the parameter file and spawn; no record
SubmitImagery(c) ==
  /\ CanSubmit
  /\ reqCount' = reqCount + 1 /\ UNCHANGED <<limit, clash, strict, alerts>>
  /\ LET n == reqCount + 1
         verdict == ImageryAdmission(c)
     IN IF verdict # "Accepted"
        THEN Reject(n, "imagery", c, 0, verdict)
        ELSE \E t \in Generated("imagery", n) :
             /\ Launch(n, "imagery", JobId(t))
             /\ resp' = [resp EXCEPT ![n] = Append(@, 202)]
             /\ last' = Answer("imagery", c, 0, JobId(t), 202, "Accepted", "processing")
             /\ WriteParams(t)
             /\ UNCHANGED <<store, file, hist, crashed>>

\* building the result object throws: JSON.parse of output that is no JSON
ResultThrows(o) == o.code = 0 /\ o.out = "garbage"

\* the result object the imagery close handler writes to the result file
ImageryResult(o) ==
  IF ResultThrows(o)
  THEN FileRec("failed", FALSE, "parse")
  ELSE FileRec(IF o.code = 0 THEN "completed" ELSE "failed",
               o.code = 0 /\ o.out = "json",
               IF o.code # 0 THEN (IF o.err = "text" THEN "stderr" ELSE "empty") ELSE "none")

\* fetchSatelliteImagery, pythonProcess.on("close")
CloseImagery(n, o) ==
  /\ ~crashed
  /\ proc[n].kind = "imagery" /\ proc[n].state = "running"
  /\ IF ~o.started
     THEN StartFailure(n)
     ELSE /\ proc' = [proc EXCEPT ![n].state = "closed", ![n].exit = ExitClass(o)]
          /\ file' = [file EXCEPT ![proc[n].pid.base] = ImageryResult(o)]
          /\ IF ResultThrows(o)
             THEN UNCHANGED params
             ELSE Unlink(proc[n].pid.base)
          /\ UNCHANGED <<store, hist, resp, last, reqCount, crashed, limit, clash, strict, alerts>>

\* ----------------------------------------------------------- segmentation
\* processGeographicArea up to the await of processAreaWithSatelliteData
SubmitSegment(c) ==
  /\ CanSubmit
  /\ reqCount' = reqCount + 1 /\ UNCHANGED <<limit, clash, strict, alerts>>
  /\ LET n == reqCount + 1
         verdict == SegmentAdmission(c)
     IN IF verdict # "Accepted"
        THEN Reject(n, "segmentation", c, 0, verdict)
        ELSE /\ Launch(n, "segmentation", NoId)
             /\ last' = Exchange("pending", "segmentation", c, 0, JobId(n), 0, "Accepted",
                                 "none", FALSE, FALSE)
             /\ UNCHANGED <<store, file, hist, resp, crashed, params>>

\* alert.save() in createAlertsFromDetections: the Alert schema requires
\* zoneId, which is the caller's zoneName as given; the store may fail the write
AlertStored(a, i) == a.zoneName /\ i \notin a.fails

RECURSIVE AlertLoopUntilFailure(_, _, _)
\* variant of AlertLoop: a write that fails ends the loop
AlertLoopUntilFailure(a, i, acc) ==
  IF i > Len(a.detections) THEN acc
  ELSE IF a.detections[i] >= a.threshold
       THEN IF AlertStored(a, i)
            THEN AlertLoopUntilFailure(a, i + 1, AlertsOf(a, acc.tried + 1, acc.made + 1))
            ELSE AlertsOf(a, acc.tried + 1, acc.made)
       ELSE AlertLoopUntilFailure(a, i + 1, acc)

RECURSIVE AlertLoop(_, _, _)
\* for (const detection of detections): an Alert write for each detection with
\* confidence >= threshold, each inside its own try/catch; alertsCreated counts
\* the writes that succeeded
AlertLoop(a, i, acc) ==
  IF i > Len(a.detections) THEN acc
  ELSE IF a.detections[i] >= a.threshold
       THEN AlertLoop(a, i + 1,
                      AlertsOf(a, acc.tried + 1,
                               acc.made + (IF AlertStored(a, i) THEN 1 ELSE 0)))
       ELSE AlertLoop(a, i + 1, acc)

\* variant of createAlertsFromDetections: the first failed write ends the loop
createAlertsUntilFailure(a) == AlertLoopUntilFailure(a, 1, AlertsOf(a, 0, 0))

\* createAlertsFromDetections(userId, zoneName, detections, threshold)
createAlertsFromDetections(a) == AlertLoop(a, 1, AlertsOf(a, 0, 0))

\* processAreaWithSatelliteData settles ('close' or 'error') and
\* processGeographicArea finishes: record saved (status by schema default
\* "completed"), the alerts of its detections and 200, or 500
CloseSegment(n, o, a) ==
  /\ ~crashed
  /\ proc[n].kind = "segmentation" /\ proc[n].state = "running"
  /\ proc' = [proc EXCEPT ![n].state = IF o.started THEN "closed" ELSE "failedToStart",
                          ![n].exit = ExitClass(o)]
  /\ IF o.started /\ o.code = 0 /\ o.out = "json"
     THEN /\ Save(JobId(n), Rec("segmentation", "completed", TRUE, "none", NoChunk, <<>>))
          /\ resp' = [resp EXCEPT ![n] = Append(@, 200)]
          /\ alerts' = [alerts EXCEPT ![n] = createAlertsFromDetections(a)]
          /\ last' = Exchange("answer", "segmentation", NoBox, 0, JobId(n), 200, "none",
                              "completed", TRUE, FALSE)
     ELSE /\ resp' = [resp EXCEPT ![n] = Append(@, 500)]
          /\ last' = Exchange("answer", "segmentation", NoBox, 0, JobId(n), 500, "none",
                              "none", FALSE, TRUE)
          /\ UNCHANGED <<store, hist, alerts>>
  /\ UNCHANGED <<file, reqCount, crashed, limit, clash, strict, params>>

\* ------------------------------------------------------------ batch height
Min(a, b) == IF a < b THEN a ELSE b

\* the buildings array of a batch request: unit i of the input is the number i
Buildings(size) == [i \in 1..size |-> i]

\* variant of Slice: the end index is taken as inclusive
SliceInclusive(buildings, i) ==
  SubSeq(buildings, i + 1, Min(i + chunkSize + 1, Len(buildings)))

\* buildings.slice(i, i + chunkSize), i counted from 0
Slice(buildings, i) == SubSeq(buildings, i + 1, Min(i + chunkSize, Len(buildings)))

RECURSIVE ChunkLoop(_, _)
\* for (let i = 0; i < buildings.length; i += chunkSize): the chunk is
\* buildings.slice(i, i + chunkSize), its chunkIndex Math.floor(i / chunkSize)
ChunkLoop(buildings, i) ==
  IF i < Len(buildings)
  THEN <<[index |-> i \div chunkSize, units |-> Slice(buildings, i)]>>
       \o ChunkLoop(buildings, i + chunkSize)
  ELSE <<>>

\* variant of BatchAdmission: a batch of exactly the maximum is turned away
BatchAdmissionBelowMax(size) ==
  IF size = 0 THEN "EmptyBatch"
  ELSE IF size >= MaxBatch THEN "BatchTooLarge"
  ELSE "Accepted"

\* batchHeightEstimation: the checks before the batchId is generated
BatchAdmission(size) ==
  IF size = 0 THEN "EmptyBatch"
  ELSE IF size > MaxBatch THEN "BatchTooLarge"
  ELSE "Accepted"

\* the status batchHeightEstimation gives the SegmentationResult of a chunk
ChunkStatus == "processing"

\* the chunk document batchHeightEstimation builds
ChunkRecord(c) == Rec("batch", ChunkStatus, FALSE, "none", c.index, c.units)

RECURSIVE SavedCount(_, _, _)
\* how many of the loop's saves succeed before one is refused: the saves are
\* awaited one after the other and the first refusal leaves the loop
SavedCount(t, chunks, j) ==
  IF j > Len(chunks) \/ Refused("SegmentationResult", ChunkId(t, chunks[j].index))
  THEN j - 1
  ELSE SavedCount(t, chunks, j + 1)

RECURSIVE SaveChunks(_, _, _, _)
\* the saves of the loop, one after the other, applied to the collection st
SaveChunks(st, n, chunks, j) ==
  IF j > Len(chunks) THEN st
  ELSE SaveChunks([st EXCEPT ![ChunkId(n, chunks[j].index)] = ChunkRecord(chunks[j])],
                  n, chunks, j + 1)

RECURSIVE LogChunks(_, _, _, _)
LogChunks(h, n, chunks, j) ==
  IF j > Len(chunks) THEN h
  ELSE LogChunks([h EXCEPT ![ChunkId(n, chunks[j].index)] = Append(@, ChunkStatus)],
                 n, chunks, j + 1)

\* the chunk documents request n has just saved carry the identifiers of batch t
Stamp(st, n, t, user) ==
  [k \in AllIds |->
     IF k.base = n /\ k.chunk # NoChunk /\ st[k].kind = "batch"
     THEN [st[k] EXCEPT !.pid = ChunkId(t, k.chunk), !.owner = Owner("batch", user)]
     ELSE st[k]]

\* batchHeightEstimation: checks, one record per chunk, processBatchHeights, 202
\* whose results list reports every chunk as "queued"
\* batchHeightEstimation for a request in which the store fails the save of
\* the failing-th chunk (0: the store fails no save)
AdmitBatch(size, failing) ==
  /\ CanSubmit
  /\ reqCount' = reqCount + 1 /\ UNCHANGED <<limit, clash, strict, alerts>>
  /\ LET n == reqCount + 1
         verdict == BatchAdmission(size)
         chunks == ChunkLoop(Buildings(size), 0)
     IN IF verdict # "Accepted"
        THEN Reject(n, "batch", NoBox, size, verdict)
        ELSE \E t \in Generated("batch", n), user \in Callers :
             LET accepted == SavedCount(t, chunks, 1)
                 saved == IF Invalid("batch", user) THEN <<>>
                          ELSE IF failing > 0 /\ failing <= accepted
                          THEN SubSeq(chunks, 1, failing - 1)
                          ELSE SubSeq(chunks, 1, accepted)
             IN /\ store' = Stamp(SaveChunks(store, n, saved, 1), n, t, user)
                /\ hist' = LogChunks(hist, n, saved, 1)
                /\ IF Len(saved) < Len(chunks)
                   THEN SaveRefused(n, "batch", NoBox, size)
                   ELSE /\ Launch(n, "batch", JobId(t))
                        /\ resp' = [resp EXCEPT ![n] = Append(@, 202)]
                        /\ last' = Answer("batch", NoBox, size, JobId(t), 202, "Accepted",
                                          "queued")
                        /\ WriteParams(t)
                        /\ UNCHANGED <<file, crashed>>

\* a batch submission whose saves the store takes
SubmitBatch(size) == AdmitBatch(size, 0)

\* processBatchHeights, pythonProcess.on("close"): removes the parameter file
CloseBatch(n, o) ==
  /\ ~crashed
  /\ proc[n].kind = "batch" /\ proc[n].state = "running"
  /\ IF ~o.started
     THEN StartFailure(n)
     ELSE /\ proc' = [proc EXCEPT ![n].state = "closed", ![n].exit = ExitClass(o)]
          /\ Unlink(proc[n].pid.base)
          /\ UNCHANGED <<store, file, hist, resp, last, reqCount, crashed, limit, clash, strict, alerts>>

\* ----------------------------------------------------------------- polling
\* Model.findOne({ processingId }): the first document in insertion order with
\* that processingId, or NoRecord
FindOne(coll, id) ==
  LET found == Matching(coll, id)
  IN IF found = {} THEN NoRecord
     ELSE store[CHOOSE k \in found : \A j \in found : k.base <= j.base]

\* the answer of getHeightResults / getDeforestationResults / getPredictionResults
StoreAnswer(op, coll, id) ==
  LET rec == FindOne(coll, id)
  IN IF rec.kind = "none"
     THEN Exchange(op, coll, NoBox, 0, id, 404, "NotFound", "none", FALSE, FALSE)
     ELSE [Exchange(op, coll, NoBox, 0, id, 200, "none", rec.status, rec.hasResult,
                    rec.error # "none") EXCEPT !.detections = rec.detections]

\* the answer of getImageryResults: the result file, or "processing" when
\* there is no such file
ImageryAnswer(id) ==
  LET f == IF id.chunk = NoChunk /\ id.base \in Bases THEN file[id.base] ELSE NoFile
  IN IF f.status = "none"
     THEN Exchange("poll", "imagery", NoBox, 0, id, 200, "none", "processing",
                   FALSE, FALSE)
     ELSE Exchange("poll", "imagery", NoBox, 0, id, 200, "none", f.status,
                   f.status = "completed" /\ f.hasData,
                   f.status = "failed" /\ f.error \in {"stderr", "parse"})

\* identifiers a caller may poll with: every identifier an admission can return
\* and one that none returns
PollIds == {JobId(n) : n \in 0..MaxRequests} \cup {ChunkId(n, 0) : n \in Bases}

\* variant of Poll: a poll acknowledges what it reads and clears the error of
\* the record it answers with
PollAcknowledging(answer) ==
  /\ ~crashed
  /\ last' = answer
  /\ store' = [k \in DOMAIN store |->
                 IF store[k].kind # "none" /\ store[k].pid = answer.id
                 THEN [store[k] EXCEPT !.error = "none"] ELSE store[k]]
  /\ UNCHANGED <<file, proc, hist, resp, reqCount, crashed, limit, clash, strict, alerts, params>>

Poll(answer) ==
  /\ ~crashed
  /\ last' = answer
  /\ UNCHANGED <<store, file, proc, hist, resp, reqCount, crashed, limit, clash, strict, alerts, params>>

\* getHeightResults
PollHeight(id) == Poll(StoreAnswer("poll", "SegmentationResult", id))

\* getDeforestationResults
PollDeforestation(id) == Poll(StoreAnswer("poll", "SegmentationResult", id))

\* getPredictionResults
PollPrediction(id) == Poll(StoreAnswer("poll", "PredictionResult", id))

\* getImageryResults
PollImagery(id) == Poll(ImageryAnswer(id))

\* ------------------------------------------------------- specifications
\* requests with an accepted input
SubmitAccepted ==
  \/ \E c \in MainBoxes : SubmitHeight(c)
  \/ SubmitPrediction(TRUE)
  \/ \E k \in AreaKinds, c \in MainBoxes : SubmitArea(k, c)
  \/ SubmitInvestment(TRUE)
  \/ \E c \in MainBoxes : SubmitImagery(c)
  \/ \E c \in MainBoxes : SubmitSegment(c)
  \/ SubmitBatch(MaxUnits)

\* the evaluations the concurrent runs go through: detections 75 and 40, or 75
\* and 80 with the first write failed by the store, at the default threshold;
\* with and without a zone name
MainAlertInputs ==
  {AlertInput(TRUE, DefaultThreshold, <<75, 40>>, {}),
   AlertInput(TRUE, DefaultThreshold, <<75, 80>>, {1}),
   AlertInput(FALSE, DefaultThreshold, <<75, 40>>, {})}

\* the executor callbacks
Callbacks ==
  \/ \E n \in Bases, o \in Outcomes : CloseHeight(n, o)
  \/ \E n \in Bases, o \in Outcomes : ClosePrediction(n, o)
  \/ \E n \in Bases, o \in Outcomes : CloseArea(n, o)
  \/ \E n \in Bases, trigger \in BOOLEAN, stored \in BOOLEAN : RespondArea(n, trigger, stored)
  \/ \E n \in Bases, o \in Outcomes : CloseInvestment(n, o)
  \/ \E n \in Bases : RespondInvestment(n)
  \/ \E n \in Bases, o \in Outcomes : CloseImagery(n, o)
  \/ \E n \in Bases, o \in Outcomes, a \in MainAlertInputs : CloseSegment(n, o, a)
  \/ \E n \in Bases, o \in Outcomes : CloseBatch(n, o)

Polls ==
  \/ \E id \in PollIds : PollHeight(id)
  \/ \E id \in PollIds : PollDeforestation(id)
  \/ \E id \in PollIds : PollPrediction(id)
  \/ \E id \in PollIds : PollImagery(id)

\* admissions and executor callbacks of concurrently running jobs
Next == SubmitAccepted \/ Callbacks

Spec == Init /\ [][Next]_vars

\* the same with callers polling in between
NextPoll == SubmitAccepted \/ Callbacks \/ Polls

InitPoll == Started(MaxPolled)

SpecPoll == InitPoll /\ [][NextPoll]_vars

\* the admission checks over the whole input grid
SubmitAny ==
  \/ \E c \in GridBoxes : SubmitHeight(c)
  \/ \E g \in BOOLEAN : SubmitPrediction(g)
  \/ \E k \in AreaKinds, c \in GridBoxes : SubmitArea(k, c)
  \/ \E g \in BOOLEAN : SubmitInvestment(g)
  \/ \E c \in GridBoxes : SubmitImagery(c)
  \/ \E c \in GridBoxes : SubmitSegment(c)
  \/ \E size \in BatchSizes : SubmitBatch(size)

NextAdmit == SubmitAny

InitAdmit == StartedWith(MaxAdmitted, FALSE, MaxBatch)

SpecAdmit == InitAdmit /\ [][NextAdmit]_vars

\* the alert rule over a grid of evaluations: thresholds, detection lists of
\* up to MaxDetections confidences, zone name given or not, failed writes
Thresholds == {0, 40, DefaultThreshold, 75, 100}

Confidences == {40, 69, 70, 75}

DetectionLists == UNION {[1..k -> Confidences] : k \in 0..MaxDetections}

AlertInputs ==
  {AlertInput(z, th, d, f) : z \in BOOLEAN, th \in Thresholds, d \in DetectionLists,
                             f \in SUBSET (1..MaxDetections)}

NextAlerts ==
  \/ \E c \in MainBoxes : SubmitSegment(c)
  \/ \E n \in Bases, o \in Outcomes, a \in AlertInputs : CloseSegment(n, o, a)

InitAlerts == Started(MaxAdmitted)

SpecAlerts == InitAlerts /\ [][NextAlerts]_vars

\* admissions and callbacks in a run in which Date.now() and Math.random()
\* may give a request the identifier they gave an earlier one
InitIds == StartedWith(MaxRequests, TRUE, MaxUnits)

SpecIds == InitIds /\ [][Next]_vars

\* ------------------------------------------------------------- properties
Terminal == {"completed", "failed"}

IsPrefix(p, q) == Len(p) <= Len(q) /\ \A i \in 1..Len(p) : p[i] = q[i]

\* the records of request n: of a job, or the chunks of a batch
RecordsOf(n) == {id \in AllIds : id.base = n /\ store[id].kind # "none"}

\* the close handler of request n has run to its end or to its save
Handled(n) == proc[n].state \in {"saved", "closed", "failedToStart"}

\* the submission of request n was answered 202
Accepted(n) == Len(resp[n]) > 0 /\ resp[n][1] = 202

\* C1: the statuses persisted for a record are, in order, a prefix of queued,
\* processing, completed or of queued, processing, failed, where the record of
\* a job that is not a batch chunk may start at processing: no record is first
\* persisted completed or failed, and none leaves completed or failed.
C1_StatusSequence ==
  \A id \in AllIds :
    \/ IsPrefix(hist[id], <<"queued", "processing", "completed">>)
    \/ IsPrefix(hist[id], <<"queued", "processing", "failed">>)
    \/ /\ id.chunk = NoChunk
       /\ \/ IsPrefix(hist[id], <<"processing", "completed">>)
          \/ IsPrefix(hist[id], <<"processing", "failed">>)

\* C2: in every state every record, every imagery result file and every answer
\* a poll would give has a result exactly when its status is completed and an
\* error description exactly when its status is failed (hence never both).
C2_ResultIffCompleted ==
  /\ \A id \in AllIds : store[id].kind # "none" =>
        /\ store[id].hasResult <=> store[id].status = "completed"
        /\ store[id].error # "none" <=> store[id].status = "failed"
  /\ \A n \in Bases : file[n].status # "none" =>
        /\ file[n].hasData <=> file[n].status = "completed"
        /\ file[n].error \notin {"none", "empty"} <=> file[n].status = "failed"
  /\ \A id \in PollIds :
        \A a \in {StoreAnswer("poll", "SegmentationResult", id),
                  StoreAnswer("poll", "PredictionResult", id), ImageryAnswer(id)} :
          a.code = 200 =>
            /\ a.hasResult <=> a.status = "completed"
            /\ a.hasError <=> a.status = "failed"

\* C3: while the orchestrator is up, once the external process of an admitted
\* job has exited and its close callback has run, every record of the job, the
\* chunk records of a batch included, is completed or failed.  (No action writes
\* a record of a request whose callback has run, so a record that is not
\* terminal then stays so for ever.)
C3_TerminalAfterExit ==
  \A n \in Bases :
    (~crashed /\ Accepted(n) /\ proc[n].state = "closed") =>
      \A id \in RecordsOf(n) : store[id].status \in Terminal

\* C4: after the external process of a job ended with a non-zero exit code or
\* could not be started, and its handler ran, every record of the job is failed
\* with an error description.
C4_FailedOnProcessFailure ==
  \A n \in Bases :
    (Handled(n) /\ proc[n].exit \in {"nonzero", "startFailed"}) =>
      \A id \in RecordsOf(n) : store[id].status = "failed" /\ store[id].error # "none"

PollOf(kind) == IF kind = "imagery" THEN "imagery" ELSE Collection(kind)

\* the processingIds the 202 answer of request n carries
IssuedBy(n) ==
  IF ~Accepted(n) THEN {}
  ELSE IF proc[n].kind = "batch" THEN {store[k].pid : k \in RecordsOf(n)}
  ELSE {proc[n].pid}

\* C6: a poll, through the polling operation of the job's kind, for a
\* processingId that a 202 answer carried finds the job: it does not answer 404,
\* whether the job's process is still running or has exited.
C6_PollableAfterAccepted ==
  (/\ last.op = "poll"
   /\ \E n \in Bases : last.id \in IssuedBy(n) /\ last.kind = PollOf(proc[n].kind)) =>
    last.code # 404

\* an identifier some admission has returned: a processingId or a batch id
Issued(id) ==
  \E n \in Bases : id \in IssuedBy(n) \/ (Accepted(n) /\ id = proc[n].pid)

\* C7: a poll, in any of the four polling operations, with an identifier no
\* admission returned answers 404, never 200.
C7_UnknownIdNotFound ==
  (last.op = "poll" /\ ~Issued(last.id)) => last.code = 404

\* the answer in last is the answer to the submission of the newest request
Submitted == last.op \in {"submit", "pending"}

\* nothing was created for request n: no record, no result file, no process
NothingCreated(n) == RecordsOf(n) = {} /\ file[n] = NoFile /\ proc[n] = NoProc

\* C8: a deforestation, mining, fire, building-height or imagery submission
\* whose bounds have minLat >= maxLat or minLng >= maxLng is answered 400
\* InvalidBounds, and neither a record nor a process is created for it.
C8_InvalidBoundsRejected ==
  (Submitted /\ last.kind \in AreaKinds \cup {"height", "imagery"}
     /\ last.box.given /\ InvalidBounds(last.box)) =>
    /\ last.code = 400 /\ last.reason = "InvalidBounds"
    /\ NothingCreated(reqCount)

\* the kinds with an area ceiling and the ceilings, in km2
CeilingKinds == AreaKinds \cup {"height", "imagery", "segmentation"}

StatedCeiling(kind) ==
  CASE kind = "height" -> 100
    [] kind = "segmentation" -> 1000
    [] kind = "mining" -> 5000
    [] kind = "deforestation" -> 10000
    [] kind = "imagery" -> 10000
    [] kind = "fire" -> 50000

\* the area the kind's controller computes for the box is above the ceiling
OverCeiling(kind, box) ==
  IF kind = "segmentation"
  THEN calculateAreaSize(box) > StatedCeiling(kind) * 10
  ELSE AreaFlat(box) > StatedCeiling(kind) * 100 * 100

RECURSIVE SumUnits(_, _, _)
\* the unit counts of chunks 0..k-1 of request n, summed
SumUnits(n, k, acc) ==
  IF k = 0 THEN acc ELSE SumUnits(n, k - 1, acc + Len(store[ChunkId(n, k - 1)].units))

\* the records of batch n are the chunks of an input of N units
Chunked(n, N) ==
  LET count == (N + 49) \div 50
      made == ChunkLoop(Buildings(N), 0)
  IN /\ Cardinality(RecordsOf(n)) = count
     /\ RecordsOf(n) = {ChunkId(n, k) : k \in 0..(count - 1)}
     /\ Len(made) = count /\ \A j \in 1..count : made[j].index = j - 1
     /\ \A k \in 0..(count - 1) :
          LET r == store[ChunkId(n, k)]
              first == 50 * k
              lastPos == Min(50 * k + 49, N - 1)
          IN /\ r.chunkIndex = k
             /\ Len(r.units) = lastPos - first + 1 /\ Len(r.units) <= 50
             /\ \A j \in 1..Len(r.units) : r.units[j] = Buildings(N)[first + j]
     /\ \A k1, k2 \in 0..(count - 1) :
          k1 # k2 => {store[ChunkId(n, k1)].units[j] : j \in 1..Len(store[ChunkId(n, k1)].units)}
                       \cap {store[ChunkId(n, k2)].units[j] :
                                j \in 1..Len(store[ChunkId(n, k2)].units)} = {}
     /\ SumUnits(n, count, 0) = N

\* C10: an accepted batch of N units (1 <= N <= 1000) has created exactly
\* ceil(N/50) records under distinct ids with chunk indexes 0, 1, 2, ... in
\* ascending order; chunk k holds the units at input positions 50k to
\* min(50k+49, N-1) in input order, at most 50, and the chunks are disjoint and
\* their unit counts sum to N.
C10_BatchChunks ==
  (Submitted /\ last.kind = "batch" /\ last.code = 202) =>
    /\ last.size \in 1..1000
    /\ Chunked(reqCount, last.size)

\* C10, its case: 120 units gave chunks of 50, 50 and 20
C10_Witness ==
  /\ Submitted /\ last.kind = "batch" /\ last.code = 202 /\ last.size = 120
  /\ Cardinality(RecordsOf(reqCount)) = 3
  /\ Len(store[ChunkId(reqCount, 0)].units) = 50
  /\ Len(store[ChunkId(reqCount, 1)].units) = 50
  /\ Len(store[ChunkId(reqCount, 2)].units) = 20

\* C11: while the batch process of an accepted batch runs, every chunk record
\* the submission created is stored as queued, as the 202 answer reported it,
\* and a poll of the chunk id answers queued; no record other than a batch
\* chunk is ever queued.
C11_ChunksQueued ==
  /\ \A n \in Bases :
        (Accepted(n) /\ proc[n].kind = "batch" /\ proc[n].state = "running") =>
          \A id \in RecordsOf(n) :
            /\ store[id].status = "queued"
            /\ StoreAnswer("poll", "SegmentationResult", store[id].pid).status = "queued"
  /\ \A id \in AllIds : store[id].status = "queued" => store[id].kind = "batch"

\* C12: a batch submission of zero units is answered 400 EmptyBatch and one of
\* more than 1000 units 400 BatchTooLarge, in both cases with no record and no
\* process created; a batch of exactly 1000 units is accepted with 202.
C12_BatchLimits ==
  (Submitted /\ last.kind = "batch") =>
    /\ last.size = 0 =>
         /\ last.code = 400 /\ last.reason = "EmptyBatch"
         /\ NothingCreated(reqCount)
    /\ last.size > 1000 =>
         /\ last.code = 400 /\ last.reason = "BatchTooLarge"
         /\ NothingCreated(reqCount)
    /\ last.size = 1000 =>
         /\ last.code = 202 /\ proc[reqCount].state = "running"
         /\ Cardinality(RecordsOf(reqCount)) = 20

\* C12, its case: a batch of 1001 units was turned away
C12_Witness ==
  /\ Submitted /\ last.kind = "batch" /\ last.size = 1001
  /\ last.code = 400 /\ last.reason = "BatchTooLarge" /\ NothingCreated(reqCount)


\* the processingIds the process of request n works on
TargetIds(n) ==
  IF proc[n].kind = "batch" THEN {store[k].pid : k \in RecordsOf(n)}
  ELSE IF proc[n].kind \in {"none", "segmentation"} THEN {}
  ELSE {proc[n].pid}

\* the requests whose process is in flight on the job with processingId id
InFlight(id) == {n \in Bases : proc[n].state = "running" /\ id \in TargetIds(n)}

\* the processingIds in use
UsedIds == UNION {TargetIds(n) : n \in Bases}

StoredWith(id) == {k \in AllIds : store[k].kind # "none" /\ store[k].pid = id}

\* the requests answered 202 with processingId (or batch id) id
AcceptedWith(id) == {n \in Bases : Accepted(n) /\ (id \in IssuedBy(n) \/ id = proc[n].pid)}

Launched(n) == proc[n].state # "running" /\ proc'[n].state = "running"

\* C15: a process is launched for a request only by its admission, hence at
\* most once per Job Record; after the process has ended none is launched for
\* the job again, and a record that is completed or failed keeps its status:
\* no update of the record follows the one that made it terminal.
C15_NoRelaunch ==
  /\ [](\A id \in AllIds :
          \A i \in 1..(Len(hist[id]) - 1) : hist[id][i] \notin Terminal)
  /\ [][\A n \in Bases :
          /\ Launched(n) => proc[n].state = "none" /\ n = reqCount'
          /\ proc[n].state # "none" => proc'[n].state # "none"]_vars

\* C15, its case: the process of the first job ended, the job's record is
\* failed, and a later submission runs under an identifier of its own
C15_Witness ==
  /\ proc[1].kind = "height" /\ proc[1].state = "closed"
  /\ store[JobId(1)].status = "failed"
  /\ proc[2].state = "running" /\ proc[2].pid # proc[1].pid


\* C16: every record that is completed or failed carries the
\* processing-completed timestamp: the update that makes a record completed
\* and the update that makes it failed both write it.
C16_CompletedAtSet ==
  \A id \in AllIds : store[id].status \in Terminal => store[id].completedAt


\* C17: an alert step has run for a job only if the job's process succeeded and
\* its record is persisted as completed: no job whose record is processing,
\* queued or failed, and no job whose callback took a failure path, has an
\* Alert or an attempted Alert write.
C17_AlertOnlyAfterCompleted ==
  \A n \in Bases :
    alerts[n].tried > 0 =>
      /\ proc[n].exit = "ok"
      /\ store[JobId(n)].status = "completed"
      /\ hist[JobId(n)][Len(hist[JobId(n)])] = "completed"

\* C17, its case: the deforestation job of the first request completed and got
\* its Alert, while the analysis of the second request failed and got none
C17_Witness ==
  /\ proc[1].kind = "deforestation" /\ store[JobId(1)].status = "completed"
  /\ alerts[1].made = 1
  /\ proc[2].kind \in AreaKinds /\ proc[2].state = "saved"
  /\ store[JobId(2)].status = "failed" /\ alerts[2] = NoAlerts

\* the number of detections of an evaluation with confidence >= threshold
Qualifying(a) ==
  Cardinality({i \in 1..Len(a.detections) : a.detections[i] >= a.threshold})

C19_AlertFailureSwallowed ==
  \A n \in Bases :
    alerts[n].tried > alerts[n].made =>
      /\ store[JobId(n)].status = "completed"
      /\ store[JobId(n)].hasResult /\ store[JobId(n)].error = "none"
      /\ alerts[n].tried = IF proc[n].kind = "segmentation"
                           THEN Qualifying(alerts[n].given) ELSE 1

\* C19, its case: of two qualifying detections the first write failed and the
\* second Alert was stored
C19_Witness ==
  \E n \in Bases :
    /\ proc[n].kind = "segmentation" /\ alerts[n].given.fails = {1}
    /\ alerts[n].tried = 2 /\ alerts[n].made = 1
    /\ store[JobId(n)].status = "completed"


\* the kinds whose admission passes the parameters through a parameter file
ParamKinds == {"height", "prediction", "imagery", "batch"}

\* C20: after the process of a job with a parameter file has exited, with code
\* 0 and parsable output, with code 0 and unparsable output or with a non-zero
\* code, and its close handler has run, the parameter file is gone.  (No other
\* action removes a parameter file, so a file that is still there then stays.)
C20_ParamFileRemoved ==
  \A n \in Bases :
    (proc[n].kind \in ParamKinds /\ proc[n].state = "closed") =>
      ~params[proc[n].pid.base]

\* the callback of request n runs in this step: its process leaves flight
Closes(n) == proc[n].state = "running" /\ proc'[n].state # "running"

\* C21: in a step in which the close callback of one job runs, whatever the
\* other jobs are doing, every record and every result file that is not that
\* job's own keeps its status, result and error.
C21_OnlyOwnRecord ==
  [][\A n \in Bases :
       Closes(n) =>
         /\ \A k \in AllIds : k.base # n => store'[k] = store[k]
         /\ \A m \in Bases : m # n => file'[m] = file[m]]_vars

\* C21, its case: the job of the first request has failed while the job of the
\* second is still in flight with its record in processing
C21_Witness ==
  /\ proc[1].state = "closed" /\ store[JobId(1)].status = "failed"
  /\ proc[2].state = "running" /\ store[JobId(2)].status = "processing"

SpecPollBoth == Init /\ [][NextPoll]_vars

\* a poll step: the exchange last seen becomes a poll's
Polled == last' # last /\ last'.op = "poll"

\* C23: polling never changes a job record, and a record in completed or
\* failed state gives every poll the same status, result and error, whatever
\* the other jobs do in between: no step changes the answer a poll of a
\* terminal record gets.
C23_PollReadsOnly ==
  /\ [][Polled => UNCHANGED <<store, file, hist, alerts>>]_vars
  /\ [][/\ \A k \in AllIds :
            store[k].status \in Terminal =>
              StoreAnswer("poll", Collection(store[k].kind), store[k].pid)'
                = StoreAnswer("poll", Collection(store[k].kind), store[k].pid)
        /\ \A n \in Bases :
            file[n].status \in Terminal => ImageryAnswer(JobId(n))' = ImageryAnswer(JobId(n))]_vars

\* C23, its case: a failed record has been polled, answered with its error,
\* while the job of the other request has since completed
C23_Witness ==
  /\ last.op = "poll" /\ last.status = "failed" /\ last.hasError
  /\ \E n \in Bases : last.id # JobId(n) /\ store[JobId(n)].status = "completed"

\* ---------------------------------------------------------------------------
\* Read side: aggregation over the stored records

\* SegmentationResult.find / aggregate with { "metadata.analysisType", status:
\* "completed" }: the documents of one kind of analysis that have completed
CompletedOf(kind) ==
  {k \in AllIds : store[k].kind = kind /\ store[k].status = "completed"}

\* SegmentationResult.find(query) without a status: every stored document
Stored == {k \in AllIds : store[k].kind # "none"}

\* Alert.find(...): the alerts stored so far
RECURSIVE AlertsUpTo(_)
AlertsUpTo(n) == IF n = 0 THEN 0 ELSE alerts[n].made + AlertsUpTo(n - 1)

StoredAlerts == AlertsUpTo(limit)

ReadAnswer(kind, code, reason, size) ==
  Exchange("read", kind, NoBox, size, NoId, code, reason, "none", FALSE, FALSE)

\* variant of Read: the alerts a read has reported are taken off the store
ReadConsuming(answer) ==
  /\ ~crashed
  /\ last' = answer
  /\ alerts' = [n \in Bases |-> [alerts[n] EXCEPT !.made = 0]]
  /\ UNCHANGED <<store, file, proc, hist, resp, reqCount, crashed, limit, clash, strict, params>>

\* a read-side handler: it queries and answers
Read(answer) ==
  /\ ~crashed
  /\ last' = answer
  /\ UNCHANGED <<store, file, proc, hist, resp, reqCount, crashed, limit, clash, strict, alerts, params>>

\* a read-side handler that refuses a request without its bounds or coordinates
ReadWithin(given, kind, size) ==
  Read(IF given THEN ReadAnswer(kind, 200, "none", size)
       ELSE ReadAnswer(kind, 400, "MissingBounds", 0))

\* getTimeframeMs, in days
getTimeframeMs(timeframe) ==
  CASE timeframe = "7days" -> 7
    [] timeframe = "30days" -> 30
    [] timeframe = "3months" -> 90
    [] timeframe = "6months" -> 180
    [] timeframe = "1year" -> 365
    [] OTHER -> 30

\* the timeframe parameter of a query; "absent" takes the handler's default
Timeframes == {"absent", "30days", "1year", "other"}

\* variant of CompletedWithin: the status of a document is not looked at
WithinAnyStatus(st, kind, timeframe) ==
  {k \in DOMAIN st : st[k].kind = kind /\ st[k].age <= getTimeframeMs(timeframe)}

\* { "metadata.analysisType": kind, status: "completed", createdAt: { $gte:
\* new Date(Date.now() - getTimeframeMs(timeframe)) } } over the documents st
CompletedWithin(st, kind, timeframe) ==
  {k \in DOMAIN st : /\ st[k].kind = kind
                     /\ st[k].status = "completed"
                     /\ st[k].age <= getTimeframeMs(timeframe)}

\* { year: { $year: "$createdAt" }, month: { $month: "$createdAt" } }, counted
\* in months before the current one, a month being 30 days
MonthOf(doc) == doc.age \div 30

RECURSIVE SumForestLoss(_, _)
SumForestLoss(st, ks) ==
  IF ks = {} THEN 0
  ELSE LET k == CHOOSE x \in ks : TRUE
       IN st[k].totalForestLoss + SumForestLoss(st, ks \ {k})

\* $group by month, $sort by year and month ascending, then the map to
\* monthlyData: one bucket per month that has a matching document, oldest first
RECURSIVE Grouped(_, _, _)
Grouped(st, ks, months) ==
  IF months = {} THEN <<>>
  ELSE LET m == CHOOSE x \in months : \A y \in months : y <= x
           same == {k \in ks : MonthOf(st[k]) = m}
       IN <<[forestLoss |-> SumForestLoss(st, same), detections |-> Cardinality(same)]>>
            \o Grouped(st, ks, months \ {m})

monthlyDataOf(st, timeframe) ==
  LET ks == CompletedWithin(st, "deforestation", timeframe)
  IN Grouped(st, ks, {MonthOf(st[k]) : k \in ks})

\* monthlyData.slice(from, to) with the negative indices of the handler:
\* the buckets from the from-th last up to, not including, the to-th last
LastSlice(s, from, to) ==
  LET first == IF Len(s) > from THEN Len(s) - from + 1 ELSE 1
  IN SubSeq(s, first, Len(s) - to)

RECURSIVE SumLoss(_)
SumLoss(s) == IF s = <<>> THEN 0 ELSE Head(s).forestLoss + SumLoss(Tail(s))

\* reduce(sum) / length as a fraction; over no bucket it is 0 / 0, not a number
Average(s) == [sum |-> SumLoss(s), count |-> Len(s)]

\* calculateTrendAnalysis: changePercentage is ((recentAvg - previousAvg) /
\* previousAvg) * 100 when previousAvg > 0 and 0 otherwise; the comparisons
\* with 10 and -10 are made on the fractions
calculateTrendAnalysis(monthlyData) ==
  IF Len(monthlyData) < 2 THEN "insufficient_data"
  ELSE LET recent == Average(LastSlice(monthlyData, 3, 0))
           previous == Average(LastSlice(monthlyData, 6, 3))
           positive == previous.count > 0 /\ previous.sum > 0
           \* (recentAvg - previousAvg) / previousAvg = num / den
           num == recent.sum * previous.count - previous.sum * recent.count
           den == previous.sum * recent.count
       IN IF positive /\ num * 100 > 10 * den THEN "increasing"
          ELSE IF positive /\ num * 100 < (0 - 10) * den THEN "decreasing"
          ELSE "stable"

getDeforestationTrends(timeframe) ==
  LET frame == IF timeframe = "absent" THEN "1year" ELSE timeframe
      monthlyData == monthlyDataOf(store, frame)
  IN Read([ReadAnswer("trends", 200, "none",
                      Cardinality(CompletedWithin(store, "deforestation", frame)))
             EXCEPT !.list = monthlyData,
                    !.analysis = calculateTrendAnalysis(monthlyData),
                    !.timeframe = frame])

\* .sort({ "summary.forestLossPercentage": -1 }): the forest-loss percentages
\* of the documents ks, largest first
RECURSIVE SortedLosses(_, _, _)
SortedLosses(st, ks, values) ==
  IF values = {} THEN <<>>
  ELSE LET v == CHOOSE x \in values : \A y \in values : y <= x
           same == Cardinality({k \in ks : st[k].forestLossPercentage = v})
       IN [i \in 1..same |-> v] \o SortedLosses(st, ks, values \ {v})

\* .limit(n)
Limited(s, n) == SubSeq(s, 1, IF Len(s) < n THEN Len(s) ELSE n)

\* the forestLoss of processedHotspots, in the order of the answer
HotspotsOf(st, timeframe) ==
  LET ks == CompletedWithin(st, "deforestation", timeframe)
  IN Limited(SortedLosses(st, ks, {st[k].forestLossPercentage : k \in ks}), HotspotLimit)

\* the severity parameter is left at its default, all
getDeforestationHotspots(timeframe) ==
  LET frame == IF timeframe = "absent" THEN "30days" ELSE timeframe
      hotspots == HotspotsOf(store, frame)
  IN Read([ReadAnswer("hotspots", 200, "none", Len(hotspots))
             EXCEPT !.list = hotspots, !.timeframe = frame])

RECURSIVE SumBuildings(_, _)
SumBuildings(st, ks) ==
  IF ks = {} THEN 0
  ELSE LET k == CHOOSE x \in ks : TRUE
       IN st[k].totalBuildings + SumBuildings(st, ks \ {k})

\* the $match and $group of getHeightStatistics over documents that all lie in
\* the queried bounds: analysisCount and totalBuildings
HeightStatisticsOf(st, timeframe) ==
  LET ks == CompletedWithin(st, "height", timeframe)
  IN [analysisCount |-> Cardinality(ks), totalBuildings |-> SumBuildings(st, ks)]

getHeightStatistics(given, timeframe) ==
  LET frame == IF timeframe = "absent" THEN "30days" ELSE timeframe
      stats == HeightStatisticsOf(store, frame)
  IN Read(IF given
          THEN [ReadAnswer("heightStatistics", 200, "none", stats.analysisCount)
                  EXCEPT !.list = <<stats.totalBuildings>>, !.timeframe = frame]
          ELSE ReadAnswer("heightStatistics", 400, "MissingBounds", 0))

getFireHistory(given) ==
  ReadWithin(given, "fireHistory", Cardinality(CompletedOf("fire")))

getMiningSites ==
  Read(ReadAnswer("miningSites", 200, "none", Cardinality(CompletedOf("mining"))))

\* the radius of a lookup in metres; 1000 is the default
Radii == {500, 1000}

RECURSIVE Flattened(_, _)
Flattened(st, ks) ==
  IF ks = {} THEN <<>>
  ELSE LET k == CHOOSE x \in ks : TRUE
       IN st[k].detections \o Flattened(st, ks \ {k})

\* results.forEach(result => result.detections.forEach(...)): the detections
\* that have a center at most radius metres from the point (metres < 0 stands
\* for a detection without center); the documents of the store are taken to
\* meet the box of the lookup
nearbyDetectionsOf(st, radius) ==
  SelectSeq(Flattened(st, {k \in DOMAIN st : /\ st[k].kind # "none"
                                             /\ Collection(st[k].kind) = "SegmentationResult"}),
            LAMBDA d : d.metres >= 0 /\ d.metres <= radius)

\* the Alert documents stored for the jobs 1..n
RECURSIVE AlertDocs(_, _)
AlertDocs(al, n) ==
  IF n = 0 THEN <<>>
  ELSE AlertDocs(al, n - 1) \o
       [i \in 1..al[n].made |-> [severity |-> al[n].severity, status |-> al[n].status,
                                  age |-> al[n].age, offset |-> al[n].offset]]

\* the filter of Alert.find: coordinates within radiusInDegrees of the point in
\* latitude and in longitude, createdAt within the last 30 days
InLookup(a, radius) == a.offset <= radius /\ a.age <= 30

\* .sort({ createdAt: -1 }): the youngest first
RECURSIVE NewestFirst(_)
NewestFirst(s) ==
  IF s = <<>> THEN <<>>
  ELSE LET i == CHOOSE x \in 1..Len(s) : \A y \in 1..Len(s) : s[x].age <= s[y].age
       IN <<s[i]>> \o NewestFirst(SubSeq(s, 1, i - 1) \o SubSeq(s, i + 1, Len(s)))

recentAlertsOf(al, radius) ==
  Limited(NewestFirst(SelectSeq(AlertDocs(al, Cardinality(DOMAIN al)),
                                LAMBDA a : InLookup(a, radius))), 10)

Count(s, Test(_)) == Len(SelectSeq(s, Test))

riskFactorsOf(nearbyDetections, recentAlerts) ==
  [deforestation |-> Count(nearbyDetections, LAMBDA d : d.class = "deforestation"),
   mining |-> Count(nearbyDetections, LAMBDA d : d.class = "mining"),
   forestFire |-> Count(nearbyDetections, LAMBDA d : d.class = "forest_fire"),
   criticalAlerts |-> Count(recentAlerts, LAMBDA a : a.severity = "critical")]

\* variant of calculateAreaRisk: the thresholds are reached, not exceeded
calculateAreaRiskFrom(riskFactors) ==
  IF riskFactors.criticalAlerts > 0 \/ riskFactors.forestFire > 0 THEN "Critical"
  ELSE IF riskFactors.mining >= 2 \/ riskFactors.deforestation >= 5 THEN "High"
  ELSE IF riskFactors.mining > 0 \/ riskFactors.deforestation >= 2 THEN "Medium"
  ELSE "Low"

calculateAreaRisk(riskFactors) ==
  IF riskFactors.criticalAlerts > 0 \/ riskFactors.forestFire > 0 THEN "Critical"
  ELSE IF riskFactors.mining > 2 \/ riskFactors.deforestation > 5 THEN "High"
  ELSE IF riskFactors.mining > 0 \/ riskFactors.deforestation > 2 THEN "Medium"
  ELSE "Low"

\* point-radius lookup: the detections around the point, the recent alerts in
\* the box and the risk of the area; given is false for a request whose
\* latitude or longitude is missing or 0
analyzeCoordinates(given, radius) ==
  LET nearbyDetections == nearbyDetectionsOf(store, radius)
      recentAlerts == recentAlertsOf(alerts, radius)
  IN Read(IF given
          THEN [ReadAnswer("coordinates", 200, "none", Len(nearbyDetections))
                  EXCEPT !.detections = nearbyDetections, !.list = recentAlerts,
                         !.analysis = calculateAreaRisk(riskFactorsOf(nearbyDetections,
                                                                      recentAlerts)),
                         !.radius = radius]
          ELSE ReadAnswer("coordinates", 400, "MissingBounds", 0))

getMapLayers ==
  Read(ReadAnswer("mapLayers", 200, "none", Cardinality(Stored)))

getTimeSeries(given) ==
  ReadWithin(given, "timeSeries", Cardinality(Stored))

Reads ==
  \/ \E t \in Timeframes : getDeforestationHotspots(t)
  \/ \E t \in Timeframes : getDeforestationTrends(t)
  \/ \E given \in BOOLEAN, t \in Timeframes : getHeightStatistics(given, t)
  \/ \E given \in BOOLEAN : getFireHistory(given)
  \/ getMiningSites
  \/ \E given \in BOOLEAN, radius \in Radii : analyzeCoordinates(given, radius)
  \/ getMapLayers
  \/ \E given \in BOOLEAN : getTimeSeries(given)

NextRead == SubmitAccepted \/ Callbacks \/ Reads

SpecRead == InitPoll /\ [][NextRead]_vars

\* a read step: the exchange last seen becomes a read's
Reading == last' # last /\ last'.op = "read"

\* C24: the read-side operations (hotspots, trends, height statistics, fire
\* history, mining sites, point-radius lookup, map layers, time series) leave
\* every job record and every alert unchanged.
C24_ReadsLeaveStore ==
  [][Reading => UNCHANGED <<store, file, hist, alerts>>]_vars

\* C24, its case: the point-radius lookup has answered with a completed record
\* and a stored alert in its count
C24_Witness ==
  /\ last.op = "read" /\ last.kind = "coordinates" /\ last.code = 200 /\ Len(last.list) >= 1
  /\ StoredAlerts > 0
  /\ \E k \in AllIds : store[k].status = "completed"

\* C25: for every analysis kind that launches an external process, the
\* admission request is answered before the process exits: while a job's
\* process is still running its request already has its response.
C25_AnsweredBeforeExit ==
  \A n \in Bases : proc[n].state = "running" => Len(resp[n]) > 0

\* ---------------------------------------------------------------------------
\* Admission into a store that validates every document against its schema

InitSchema == StartedAs(MaxAdmitted, FALSE, MaxBatch, TRUE)

NextSchema == SubmitAny

SpecSchema == InitSchema /\ [][NextSchema]_vars

\* the kinds whose admission builds a record and answers
RecordKinds == {"height", "batch", "prediction"} \cup AreaKinds

\* the owner a record may carry: the requesting user or a sentinel
Owners == {"id", "anonymousId", "anonymous"}

\* C26: a submission that passes the bounds and area checks, with or without a
\* user id, persists a record in processing state that is owned by the
\* requesting user or the anonymous sentinel and satisfies the schema of its
\* collection, and is answered 202 with that record's processingId.
C26_AdmissionPersists ==
  (last.op = "submit" /\ last.kind \in RecordKinds /\ last.code # 400) =>
    /\ last.code = 202
    /\ RecordsOf(reqCount) # {}
    /\ \A k \in RecordsOf(reqCount) :
         /\ store[k].status = "processing"
         /\ store[k].owner \in Owners
         /\ Validates(store[k].kind, store[k].owner)
         /\ k.chunk = NoChunk => store[k].pid = last.id

\* ---------------------------------------------------------------------------
\* Building-height jobs whose process emits a list of buildings

\* the buildings lists a process may emit: confidences in emission order
RECURSIVE ListsUpTo(_)
ListsUpTo(len) ==
  IF len = 0 THEN {<<>>}
  ELSE LET shorter == ListsUpTo(len - 1)
       IN shorter \cup {Append(l, c) : l \in {s \in shorter : Len(s) = len - 1},
                                        c \in EmittedConfidences}

BuildingLists == ListsUpTo(MaxBuildings)

NextHeight ==
  \/ \E c \in MainBoxes : SubmitHeight(c)
  \/ \E n \in Bases, o \in Outcomes, b \in BuildingLists : CloseHeightEmitting(n, o, b)
  \/ \E id \in PollIds : PollHeight(id)

SpecHeight == InitPoll /\ [][NextHeight]_vars

\* what a poll of the height job of request n is answered now
HeightAnswer(n) == StoreAnswer("poll", "SegmentationResult", proc[n].pid)

NextHung ==
  \/ \E c \in MainBoxes : SubmitHeight(c)
  \/ \E k \in AreaKinds, c \in MainBoxes : SubmitArea(k, c)
  \/ \E n \in Bases, o \in Outcomes : CloseHeight(n, o)
  \/ \E n \in Bases, o \in Outcomes : CloseArea(n, o)
  \/ \E n \in Bases, trigger \in BOOLEAN, stored \in BOOLEAN : RespondArea(n, trigger, stored)

\* the processes of all requests but the first exit, and the event loop then
\* runs their close callbacks to the end; the process of the first request may
\* run forever
OthersExit ==
  \A m \in Bases \ {1} :
    /\ WF_vars(\E o \in Outcomes : CloseHeight(m, o))
    /\ WF_vars(\E o \in Outcomes : CloseArea(m, o))
    /\ WF_vars(\E trigger \in BOOLEAN, stored \in BOOLEAN : RespondArea(m, trigger, stored))

SpecHung == Init /\ [][NextHung]_vars /\ OthersExit

NextSummary ==
  \/ \E k \in AreaKinds, c \in MainBoxes : SubmitArea(k, c)
  \/ \E n \in Bases, o \in Outcomes : CloseArea(n, o)
  \/ \E n \in Bases, s \in Summaries, stored \in BOOLEAN : RespondAreaSummarised(n, s, stored)

SpecSummary == Init /\ [][NextSummary]_vars

\* the trigger as stated: forest-loss percentage above 5, active-fire count
\* above 0, mining-site count above 0
StatedTrigger(kind, s) == IF kind = "deforestation" THEN s.metric > 5 ELSE s.metric > 0

\* the area jobs whose callback has run to its end on a completed record
Summarised == {n \in Bases : /\ proc[n].kind \in AreaKinds /\ proc[n].state = "closed"
                             /\ proc[n].exit = "ok"}

PopulatedWith(st, al) ==
  /\ store = st
  /\ file = [n \in Bases |-> NoFile]
  /\ proc = [n \in Bases |-> NoProc]
  /\ hist = [id \in DOMAIN st |-> <<>>]
  /\ resp = [n \in Bases |-> <<>>]
  /\ last = NoExchange
  /\ reqCount = 0
  /\ crashed = FALSE
  /\ limit = 0
  /\ clash = FALSE
  /\ strict = FALSE
  /\ alerts = al
  /\ params = [n \in Bases |-> FALSE]

Populated(st) == PopulatedWith(st, [n \in Bases |-> NoAlerts])

\* a stored document of an analysis: created age days ago, with its summary
Doc(kind, status, age, total, percentage, id) ==
  [Rec(kind, status, status = "completed", "none", NoChunk, <<>>)
     EXCEPT !.pid = id, !.completedAt = (status = "completed"), !.age = age,
            !.totalForestLoss = total, !.forestLossPercentage = percentage]

\* summary.totalForestLoss of the documents of a trend query
TrendLosses == {0, 10, 11, 20}

\* what a month holds: no document, a completed analysis, or one still running
TrendShapes ==
  {[status |-> "none", loss |-> 0], [status |-> "processing", loss |-> 20]}
    \cup {[status |-> "completed", loss |-> v] : v \in TrendLosses}

\* the m-th document was created in the middle of the m-th month back
TrendStore(f) ==
  [k \in {JobId(m) : m \in 1..MaxMonths} |->
     IF f[k.base].status = "none" THEN NoRecord
     ELSE Doc("deforestation", f[k.base].status, 30 * (k.base - 1) + 15,
              f[k.base].loss, f[k.base].loss, k)]

InitTrend == \E f \in [1..MaxMonths -> TrendShapes] : Populated(TrendStore(f))

NextTrend == \E t \in Timeframes : getDeforestationTrends(t)

SpecTrend == InitTrend /\ [][NextTrend]_vars

\* the direction of the change from mean e to mean r of two groups of buckets
\* (each a fraction sum / count), by the 10% rule; e is positive
Direction(r, e) ==
  LET num == r.sum * e.count - e.sum * r.count
      den == e.sum * r.count
  IN IF num * 100 > 10 * den THEN "increasing"
     ELSE IF num * 100 < (0 - 10) * den THEN "decreasing"
     ELSE "stable"

\* the directions the buckets s support: the most recent r buckets against a
\* non-empty group of buckets before them whose mean is positive
Directions(s) ==
  {Direction(Average(SubSeq(s, Len(s) - r + 1, Len(s))), Average(SubSeq(s, a, b))) :
     <<r, a, b>> \in {t \in (1..Len(s)) \X (1..Len(s)) \X (1..Len(s)) :
                        /\ t[2] <= t[3] /\ t[3] <= Len(s) - t[1]
                        /\ SumLoss(SubSeq(s, t[2], t[3])) > 0}}

\* C31: over two or more monthly buckets the trend reported is the direction,
\* by the 10% rule, of the mean forest loss of the most recent buckets against
\* the mean of a non-empty earlier group of buckets; with fewer than two
\* buckets it is insufficient_data.
C31_TrendByTenPercent ==
  (last.op = "read" /\ last.kind = "trends") =>
    IF Len(last.list) < 2 THEN last.analysis = "insufficient_data"
    ELSE Directions(last.list) # {} => last.analysis \in Directions(last.list)

\* ---------------------------------------------------------------------------
\* Read-side queries over stores that mix completed and other documents

\* a document by its shape: kind, status, age and the magnitude of its summary
Shape(kind, status, age, value) == [kind |-> kind, status |-> status, age |-> age, value |-> value]

ShapedDoc(s, id) ==
  [Doc(s.kind, s.status, s.age, s.value, s.value, id) EXCEPT !.totalBuildings = s.value]

QueryShapes ==
  {Shape("deforestation", "completed", 15, 3), Shape("deforestation", "completed", 15, 12),
   Shape("deforestation", "completed", 45, 12), Shape("deforestation", "processing", 15, 20),
   Shape("deforestation", "failed", 15, 20), Shape("deforestation", "queued", 45, 20),
   Shape("height", "completed", 15, 4), Shape("height", "completed", 45, 6),
   Shape("height", "processing", 15, 20), Shape("height", "failed", 15, 20)}

\* c documents of shapes a and b in turn, then one document of shape x
Alternating(a, b, x, c) ==
  [k \in {JobId(m) : m \in 1..(MaxDocs + 1)} |->
     IF k.base <= c THEN ShapedDoc(IF k.base % 2 = 1 THEN a ELSE b, k)
     ELSE IF k.base = c + 1 THEN ShapedDoc(x, k)
     ELSE NoRecord]

InitQuery ==
  \E a \in QueryShapes, b \in QueryShapes, x \in QueryShapes, c \in {2, MaxDocs} :
    Populated(Alternating(a, b, x, c))

NextQuery ==
  \/ \E t \in Timeframes : getDeforestationHotspots(t)
  \/ \E t \in Timeframes : getDeforestationTrends(t)
  \/ \E given \in BOOLEAN, t \in Timeframes : getHeightStatistics(given, t)

SpecQuery == InitQuery /\ [][NextQuery]_vars

\* whether a query over the timeframe uses the document
Used(doc, timeframe) == doc.status = "completed" /\ doc.age <= getTimeframeMs(timeframe)

\* the store without the documents a query over the timeframe does not use
Cleared(st, timeframe) ==
  [k \in DOMAIN st |-> IF Used(st[k], timeframe) THEN st[k] ELSE NoRecord]

\* the store with another non-completed document of the kind in every place
\* that holds no completed document
Disturbed(st, kind) ==
  [k \in DOMAIN st |->
     IF st[k].status = "completed" THEN st[k]
     ELSE ShapedDoc(Shape(kind, IF st[k].status = "failed" THEN "queued" ELSE "failed", 1, 99), k)]

\* C32: hotspot ranking, trend analysis and height statistics over a store
\* that mixes queued, processing, completed and failed documents use only the
\* completed documents inside the time window: the answer is the one over the
\* store without the other documents and the one over the store with other
\* non-completed documents; the hotspot list is in descending order of
\* forest-loss percentage and has at most 50 entries.
C32_OnlyCompletedInWindow ==
  (last.op = "read" /\ last.code = 200) =>
    /\ last.kind = "hotspots" =>
         /\ last.list = HotspotsOf(Cleared(store, last.timeframe), last.timeframe)
         /\ last.list = HotspotsOf(Disturbed(store, "deforestation"), last.timeframe)
         /\ \A i \in 1..Len(last.list), j \in 1..Len(last.list) :
              i < j => last.list[i] >= last.list[j]
         /\ Len(last.list) <= 50
    /\ last.kind = "trends" =>
         /\ last.list = monthlyDataOf(Cleared(store, last.timeframe), last.timeframe)
         /\ last.list = monthlyDataOf(Disturbed(store, "deforestation"), last.timeframe)
         /\ last.analysis = calculateTrendAnalysis(last.list)
    /\ last.kind = "heightStatistics" =>
         LET cleared == HeightStatisticsOf(Cleared(store, last.timeframe), last.timeframe)
             disturbed == HeightStatisticsOf(Disturbed(store, "height"), last.timeframe)
         IN /\ last.size = cleared.analysisCount /\ last.list = <<cleared.totalBuildings>>
            /\ last.size = disturbed.analysisCount /\ last.list = <<disturbed.totalBuildings>>

\* C32, its case: more than 50 completed deforestation documents lie in the
\* window beside one that is not completed, and the hotspots answer lists 50
\* of them, the larger losses first
C32_Witness ==
  /\ last.op = "read" /\ last.kind = "hotspots"
  /\ Cardinality(CompletedWithin(store, "deforestation", last.timeframe)) > 50
  /\ \E k \in DOMAIN store : store[k].kind = "deforestation" /\ store[k].status = "processing"
  /\ Len(last.list) = 50 /\ last.list[1] > last.list[50]

\* ---------------------------------------------------------------------------
\* Point-radius lookup over stored detections and Alerts

\* a stored detection of a class, its center metres away from the point
\* (no center: -1)
Detected(class, metres) == [class |-> class, confidence |-> Times100(87), metres |-> metres]

Repeated(n, d) == [i \in 1..n |-> d]

\* one segmentation document around the point: detections of the three
\* classes within 400 m, a forest fire 800 m away and a mine without center
LookupStore(d, m, f) ==
  [k \in {JobId(1)} |->
     [Doc("segmentation", "completed", 15, 0, 0, k)
        EXCEPT !.detections = Repeated(d, Detected("deforestation", 400))
                                \o Repeated(m, Detected("mining", 400))
                                \o Repeated(f, Detected("forest_fire", 400))
                                \o <<Detected("forest_fire", 800), Detected("mining", 0 - 1)>>]]

\* a stored Alert
AlertDoc(severity, status, age, offset) ==
  [AlertsOf(NoInput, 1, 1) EXCEPT !.severity = severity, !.status = status,
                                  !.age = age, !.offset = offset]

AlertShapes ==
  {NoAlerts,
   AlertDoc("critical", "active", 10, 400), AlertDoc("critical", "resolved", 10, 400),
   AlertDoc("critical", "dismissed", 10, 400), AlertDoc("high", "acknowledged", 5, 400),
   AlertDoc("critical", "active", 40, 400), AlertDoc("critical", "active", 10, 800)}

InitLookup ==
  \E d \in {0, 2, 3, 5, 6}, m \in {0, 1, 2, 3}, f \in {0, 1}, al \in [1..MaxAlerts -> AlertShapes] :
    PopulatedWith(LookupStore(d, m, f), al)

NextLookup == \E given \in BOOLEAN, radius \in Radii : analyzeCoordinates(given, radius)

SpecLookup == InitLookup /\ [][NextLookup]_vars

\* a lookup has answered with its analysis
LookedUp == last.op = "read" /\ last.kind = "coordinates" /\ last.code = 200

\* the detections of a class in the answer
Nearby(class) == Count(last.detections, LAMBDA d : d.class = class)

CriticalAlerts == Count(last.list, LAMBDA a : a.severity = "critical")

\* C33: the area risk of a point-radius lookup is Critical with at least one
\* critical alert or forest-fire detection nearby; otherwise High with more
\* than 2 mining or more than 5 deforestation detections; otherwise Medium
\* with more than 0 mining or more than 2 deforestation detections; otherwise
\* Low.
C33_AreaRisk ==
  LookedUp =>
    last.analysis =
      (IF CriticalAlerts >= 1 \/ Nearby("forest_fire") >= 1 THEN "Critical"
       ELSE IF Nearby("mining") > 2 \/ Nearby("deforestation") > 5 THEN "High"
       ELSE IF Nearby("mining") > 0 \/ Nearby("deforestation") > 2 THEN "Medium"
       ELSE "Low")

\* C33, its case: a lookup found five deforestation detections and two mines,
\* no fire and no critical alert, and classified the area as Medium
C33_Witness ==
  /\ LookedUp /\ last.analysis = "Medium"
  /\ Nearby("deforestation") = 5 /\ Nearby("mining") = 2
  /\ Nearby("forest_fire") = 0 /\ CriticalAlerts = 0

\* C34: every Alert a point-radius lookup returns is unresolved (neither
\* resolved nor dismissed), was created inside the 30-day window and lies in
\* the box of the radius; resolved and dismissed Alerts are not returned and
\* so not counted as critical alerts.
C34_UnresolvedAlertsOnly ==
  LookedUp =>
    \A i \in 1..Len(last.list) :
      /\ last.list[i].status \notin {"resolved", "dismissed"}
      /\ last.list[i].age <= 30
      /\ last.list[i].offset <= last.radius

\* the processes in flight that were handed a parameter file
UsingParams == {n \in Bases : proc[n].kind \in ParamKinds /\ proc[n].state = "running"}

PointDegrees == {0 - 500, 0, 1, 1234, 6000}

\* radii in metres; 0 stands for a request without radius
PointRadii == {0, 500, 1000, 4000, 5001, 6000}

Points == {Point(lat, lng, r) : lat \in PointDegrees, lng \in PointDegrees, r \in PointRadii}

NextPoint == \E p \in Points : SubmitHeightAt(p)

SpecPoint == InitAdmit /\ [][NextPoint]_vars

\* C36: a building-height submission of a center point with numeric latitude
\* and longitude, 0 included, and a positive radius r (1000 m when absent) is
\* never rejected as missing or malformed coordinates; its bounds are lat and
\* lng -/+ r / 111000 with minLat < maxLat and minLng < maxLng, and it is
\* rejected as too large exactly when their area exceeds 100 km2.
C36_PointAdmitted ==
  (last.op = "submit" /\ last.kind = "height") =>
    LET p == last.box
        r == IF p.radius = 0 THEN 1000 ELSE p.radius
        b == pointBounds(p)
    IN /\ last.reason \notin {"MissingCoordinates", "InvalidFormat"}
       /\ b = Box(p.lat * 1110 - r, p.lat * 1110 + r, p.lng * 1110 - r, p.lng * 1110 + r)
       /\ b.minLat < b.maxLat /\ b.minLng < b.maxLng
       /\ IF (2 * r) * (2 * r) > 100 * 1000 * 1000
          THEN last.code = 400 /\ last.reason = "AreaTooLarge"
          ELSE last.code = 202

StoredBatchSizes == {s \in BatchSizes : s <= MaxUnits} \cup {MaxBatch + 1}

\* the chunk whose save fails; 0 for none
FailingChunks == 0..((MaxUnits + chunkSize - 1) \div chunkSize)

NextBatch == \E size \in StoredBatchSizes, failing \in FailingChunks : AdmitBatch(size, failing)

SpecBatch == Init /\ [][NextBatch]_vars

\* C38: a batch submission answered with anything other than 202, a failed
\* store write for one of its chunks included, leaves no chunk record of the
\* batch in the store and no external process launched for it.
C38_BatchAllOrNothing ==
  (Submitted /\ last.kind = "batch" /\ last.code # 202) => NothingCreated(reqCount)

\* C39: when the external process of a job with records in the store has
\* exited with code 0 without writing to standard output and its close handler
\* has run, every record of the job is failed with a non-empty error and
\* without result, and was never persisted as completed.
C39_EmptyOutputFails ==
  \A n \in Bases :
    (Handled(n) /\ proc[n].exit = "noOutput") =>
      \A id \in RecordsOf(n) :
        /\ store[id].status = "failed" /\ store[id].error # "none" /\ ~store[id].hasResult
        /\ \A i \in 1..Len(hist[id]) : hist[id][i] # "completed"

====
